---------------------------- MODULE Spec2Model ----------------------------
(***************************************************************************)
(* A model of the dualcalc expression engine (src/utils/math.ts):          *)
(* evaluateExpression (text rewriting passes followed by the evaluation of *)
(* the rewritten text as the body of a JavaScript function), formatResult  *)
(* and the numeric primitives.                                             *)
(*                                                                         *)
(* A string is a sequence of one-character strings.  Numbers are exact     *)
(* rationals where the program's doubles are exact, and symbolic finite    *)
(* reals (with a sign and bounds on the binary logarithm of the magnitude) *)
(* where they are not.                                                     *)
(***************************************************************************)
EXTENDS Integers, Sequences, FiniteSets, TLC

(***************************************************************************)
(* Bounds of the model.                                                    *)
(***************************************************************************)
\* the longest raw expression, counted in typed fragments
MaxKeys == 4
\* magnitudes above MaxInt are not kept as exact rationals
MaxInt == 1000000000

(***************************************************************************)
(* Characters.                                                             *)
(***************************************************************************)
DigitChars == {"0", "1", "2", "3", "4", "5", "6", "7", "8", "9"}

LowerChars == {"a", "b", "c", "d", "e", "f", "g", "h", "i", "j", "k", "l", "m",
               "n", "o", "p", "q", "r", "s", "t", "u", "v", "w", "x", "y", "z"}

UpperChars == {"A", "B", "C", "D", "E", "F", "G", "H", "I", "J", "K", "L", "M",
               "N", "O", "P", "Q", "R", "S", "T", "U", "V", "W", "X", "Y", "Z"}

\* [a-zA-Z]
LetterChars == LowerChars \cup UpperChars

\* \s : the only whitespace the model types is the space
SpaceChars == {" "}

DigitVal(c) ==
  CASE c = "0" -> 0 [] c = "1" -> 1 [] c = "2" -> 2 [] c = "3" -> 3
    [] c = "4" -> 4 [] c = "5" -> 5 [] c = "6" -> 6 [] c = "7" -> 7
    [] c = "8" -> 8 [] c = "9" -> 9

DigitChar(n) ==
  CASE n = 0 -> "0" [] n = 1 -> "1" [] n = 2 -> "2" [] n = 3 -> "3"
    [] n = 4 -> "4" [] n = 5 -> "5" [] n = 6 -> "6" [] n = 7 -> "7"
    [] n = 8 -> "8" [] n = 9 -> "9"

\* the calculator glyphs, named by their code points
Times == "U+00D7"
Obelus == "U+00F7"
GlyphPi == "U+03C0"
GlyphPhi == "U+03C6"
GlyphRoot == "U+221A"

\* the k-th character of s, or "" past either end
At(s, k) == IF k >= 1 /\ k <= Len(s) THEN s[k] ELSE ""

\* s from its k-th character on
From(s, k) == IF k > Len(s) THEN << >> ELSE SubSeq(s, k, Len(s))

RECURSIVE IntToChars(_)
\* String(n) for an integer n >= 0 that JavaScript prints in decimal
IntToChars(n) ==
  IF n < 10 THEN << DigitChar(n) >>
  ELSE Append(IntToChars(n \div 10), DigitChar(n % 10))

\* the least of a non-empty set of integers
Least(S) == CHOOSE k \in S : \A m \in S : k <= m

\* the end of the run of digits that starts at i (the index after its last digit)
DigitsEnd(s, i) ==
  Least({k \in i..(Len(s) + i) : At(s, k) \notin DigitChars})


(***************************************************************************)
(* Values of the JavaScript expressions the evaluator can meet.  Every     *)
(* value is a record of the same shape:                                    *)
(*   k = "num"    the double n/d exactly (d a power of two); op = "-0"     *)
(*                marks the negative zero                                  *)
(*   k = "sym"    a finite non-zero double that is not kept exactly: the   *)
(*                correctly rounded result of op applied to args, of sign  *)
(*                sg (0: not known) and 2^lo <= magnitude <= 2^hi; a lo    *)
(*                below -1074 says that the double may also be a zero;     *)
(*                op = "q" is the double nearest the rational args[1]      *)
(*   k = "inf"    +Infinity (n = 1) or -Infinity (n = -1)                  *)
(*   k = "nan"    NaN                                                      *)
(*   k = "bool"   true (n = 1) or false (n = 0)                            *)
(*   k = "undef"  undefined                                                *)
(*   k = "fn"     the function named op                                    *)
(*   k = "obj"    the object named op (Math)                               *)
(*   k = "regex"  a regular expression object                              *)
(*   k = "str"    a string (always a non-numeric one, see Add)             *)
(*   k = "arr"    an array of the elements args                            *)
(*   k = "synerr" the text does not parse (SyntaxError)                    *)
(*   k = "nosyn"  the text leaves the part of the language modelled here   *)
(*   k = "rterr"  the evaluation throws (ReferenceError, TypeError)        *)
(*   k = "hang"   the evaluation never returns                             *)
(*   k = "unk"    a double whose finiteness or sign the model cannot       *)
(*                decide; ModelCovers states that no evaluation meets one  *)
(***************************************************************************)
V(k, n, d, sg, lo, hi, op, args) ==
  [k |-> k, n |-> n, d |-> d, sg |-> sg, lo |-> lo, hi |-> hi, op |-> op,
   args |-> args]

Plain(k, n, op) == V(k, n, 1, 0, 0, 0, op, << >>)

NaNV == Plain("nan", 0, "")
InfV(sign) == Plain("inf", sign, "")
BoolV(b) == Plain("bool", IF b THEN 1 ELSE 0, "")
UndefV == Plain("undef", 0, "")
FnV(name) == Plain("fn", 0, name)
ObjV(name) == Plain("obj", 0, name)
RegexV == Plain("regex", 0, "")
StrV == Plain("str", 0, "")
SynErr == Plain("synerr", 0, "")
NoSyn == Plain("nosyn", 0, "")
\* the arrow function whose body starts at the position body of the text
Arrow(body) == Plain("fn", body, "arrow")
ArrV(elems) == V("arr", 0, 1, 0, 0, 0, "", elems)
RtErr == Plain("rterr", 0, "")
UnkV == Plain("unk", 0, "")
HangV == Plain("hang", 0, "")
\* +0 and -0
ZeroV(sign) == Plain("num", 0, IF sign < 0 THEN "-0" ELSE "")
IntV(n) == IF n = 0 THEN ZeroV(1) ELSE Plain("num", n, "")

AbsI(x) == IF x < 0 THEN 0 - x ELSE x
SignI(x) == IF x < 0 THEN 0 - 1 ELSE IF x > 0 THEN 1 ELSE 0
MaxI(a, b) == IF a > b THEN a ELSE b
MinI(a, b) == IF a < b THEN a ELSE b

RECURSIVE GCD(_, _)
GCD(a, b) == IF b = 0 THEN a ELSE GCD(b, a % b)

RECURSIVE IsPow2(_)
IsPow2(d) == d = 1 \/ (d % 2 = 0 /\ IsPow2(d \div 2))

\* the largest e with 2^e <= x, for x >= 1
RECURSIVE FloorLog2(_)
FloorLog2(x) == IF x < 2 THEN 0 ELSE 1 + FloorLog2(x \div 2)

\* the least e with x <= 2^e, for x >= 1
CeilLog2(x) == IF x = 1 THEN 0 ELSE 1 + FloorLog2(x - 1)

\* a * b fits the exact range
MulFits(a, b) == b = 0 \/ AbsI(a) <= MaxInt \div AbsI(b)

\* the unknown bound of a symbolic magnitude
Unbounded == 100000

\* a finite non-zero double that is not kept exactly; the result overflows to
\* an infinity or underflows to a zero when its bounds say so
SymV(op, args, sg, lo, hi) ==
  IF lo >= 1024 THEN (IF sg = 0 THEN UnkV ELSE InfV(sg))
  ELSE IF hi > 1023 THEN UnkV
  ELSE IF hi < 0 - 1075 /\ sg # 0 THEN ZeroV(sg)
  ELSE V("sym", 0, 1, sg, MaxI(lo, 0 - Unbounded), hi, op, args)

\* a finite double of which no more is known (it may be a zero)
FiniteV(op, args, hi) == SymV(op, args, 0, 0 - Unbounded, hi)

\* the double nearest n/d, for integers n and d > 0 within the exact range
RatV(n, d) ==
  LET g == GCD(AbsI(n), d)
      rn == n \div g
      rd == d \div g
  IN  IF n = 0 THEN ZeroV(1)
      ELSE IF IsPow2(rd) THEN V("num", rn, rd, 0, 0, 0, "", << >>)
      ELSE SymV("q", << V("num", rn, rd, 0, 0, 0, "", << >>) >>, SignI(rn),
                FloorLog2(AbsI(rn)) - CeilLog2(rd),
                CeilLog2(AbsI(rn)) - FloorLog2(rd))

IsNumber(v) == v.k \in {"num", "sym", "inf", "nan", "unk"}
IsZero(v) == v.k = "num" /\ v.n = 0
IsFiniteNonZero(v) == (v.k = "num" /\ v.n # 0) \/ v.k = "sym"
\* sign of a value: 1, -1, or 0 when the model does not know it
SignOf(v) ==
  CASE v.k = "num" -> (IF v.n = 0 THEN (IF v.op = "-0" THEN 0 - 1 ELSE 1)
                       ELSE SignI(v.n))
    [] v.k = "sym" -> v.sg
    [] v.k = "inf" -> v.n
    [] OTHER -> 0
\* bounds on the binary logarithm of the magnitude of a finite non-zero value
LoOf(v) ==
  IF v.k = "num" THEN FloorLog2(AbsI(v.n)) - CeilLog2(v.d) ELSE v.lo
HiOf(v) ==
  IF v.k = "num" THEN CeilLog2(AbsI(v.n)) - FloorLog2(v.d) ELSE v.hi

\* a symbolic double that may be a zero (the result of a cancellation or of
\* an underflow)
MaybeZero(v) == v.k = "sym" /\ v.lo < 0 - 1074

(***************************************************************************)
(* The arithmetic of doubles on these values.                              *)
(***************************************************************************)
\* ToNumber
ToNumber(v) ==
  CASE v.k \in {"num", "sym", "inf", "nan", "unk"} -> v
    [] v.k = "bool" -> IntV(v.n)
    \* String([f]) is the source of the function f
    [] v.k = "arr" -> (IF Len(v.args) = 1 /\ v.args[1].k = "fn" THEN NaNV
                       ELSE UnkV)
    [] OTHER -> NaNV

\* ToBoolean
ToBoolean(v) ==
  CASE v.k = "num" -> v.n # 0
    [] v.k \in {"nan", "undef"} -> FALSE
    [] v.k = "bool" -> v.n = 1
    [] OTHER -> TRUE

\* -v
Neg(v) ==
  CASE v.k = "num" ->
         (IF v.n = 0 THEN ZeroV(0 - SignOf(v))
          ELSE V("num", 0 - v.n, v.d, 0, 0, 0, "", << >>))
    [] v.k = "inf" -> InfV(0 - v.n)
    [] v.k = "sym" ->
         (IF v.op = "neg" THEN v.args[1]
          ELSE IF v.op = "q" THEN RatV(0 - v.args[1].n, v.args[1].d)
          ELSE SymV("neg", << v >>, 0 - v.sg, v.lo, v.hi))
    [] OTHER -> v

\* a + b
Add(a, b) ==
  CASE a.k = "unk" \/ b.k = "unk" -> UnkV
    [] OTHER ->
  CASE a.k = "nan" \/ b.k = "nan" -> NaNV
    [] a.k = "inf" /\ b.k = "inf" -> (IF a.n = b.n THEN a ELSE NaNV)
    [] a.k = "inf" -> a
    [] b.k = "inf" -> b
    [] IsZero(a) /\ IsZero(b) ->
         ZeroV(IF SignOf(a) < 0 /\ SignOf(b) < 0 THEN 0 - 1 ELSE 1)
    [] IsZero(a) -> b
    [] IsZero(b) -> a
    [] a.k = "num" /\ b.k = "num" /\ MulFits(a.n, b.d) /\ MulFits(b.n, a.d)
         /\ MulFits(a.d, b.d)
         /\ AbsI(a.n * b.d + b.n * a.d) <= MaxInt ->
         RatV(a.n * b.d + b.n * a.d, a.d * b.d)
    [] b = Neg(a) -> ZeroV(1)
    [] SignOf(a) = SignOf(b) /\ SignOf(a) # 0 ->
         SymV("add", << a, b >>, SignOf(a), MaxI(LoOf(a), LoOf(b)),
              MaxI(HiOf(a), HiOf(b)) + 1)
    [] SignOf(a) # 0 /\ LoOf(a) > HiOf(b) ->
         SymV("add", << a, b >>, SignOf(a), LoOf(a) - 1, HiOf(a))
    [] SignOf(b) # 0 /\ LoOf(b) > HiOf(a) ->
         SymV("add", << a, b >>, SignOf(b), LoOf(b) - 1, HiOf(b))
    [] OTHER ->
         SymV("add", << a, b >>, 0, 0 - Unbounded, MaxI(HiOf(a), HiOf(b)) + 1)

\* a - b
Sub(a, b) == Add(a, Neg(b))

\* a * b
Mul(a, b) ==
  LET sg == SignOf(a) * SignOf(b) IN
  CASE a.k = "unk" \/ b.k = "unk" -> UnkV
    [] OTHER ->
  CASE a.k = "nan" \/ b.k = "nan" -> NaNV
    [] (a.k = "inf" /\ IsZero(b)) \/ (IsZero(a) /\ b.k = "inf") -> NaNV
    [] (a.k = "inf" /\ MaybeZero(b)) \/ (MaybeZero(a) /\ b.k = "inf") -> UnkV
    [] a.k = "inf" \/ b.k = "inf" -> (IF sg = 0 THEN UnkV ELSE InfV(sg))
    [] IsZero(a) \/ IsZero(b) ->
         (IF sg = 0 THEN FiniteV("mul", << a, b >>, 0 - 1076) ELSE ZeroV(sg))
    [] a.k = "num" /\ b.k = "num" /\ MulFits(a.n, b.n) /\ MulFits(a.d, b.d) ->
         RatV(a.n * b.n, a.d * b.d)
    [] a = IntV(1) -> b
    [] b = IntV(1) -> a
    [] OTHER ->
         SymV("mul", << a, b >>, sg, LoOf(a) + LoOf(b), HiOf(a) + HiOf(b))

\* a / b
Div(a, b) ==
  LET sg == SignOf(a) * SignOf(b) IN
  CASE a.k = "unk" \/ b.k = "unk" -> UnkV
    [] OTHER ->
  CASE a.k = "nan" \/ b.k = "nan" -> NaNV
    [] a.k = "inf" /\ b.k = "inf" -> NaNV
    [] a.k = "inf" -> (IF sg = 0 THEN UnkV ELSE InfV(sg))
    [] b.k = "inf" ->
         (IF sg = 0 THEN FiniteV("div", << a, b >>, 0 - 1076) ELSE ZeroV(sg))
    [] IsZero(a) /\ IsZero(b) -> NaNV
    [] MaybeZero(b) \/ (MaybeZero(a) /\ IsZero(b)) -> UnkV
    [] IsZero(b) -> (IF sg = 0 THEN UnkV ELSE InfV(sg))
    [] IsZero(a) ->
         (IF sg = 0 THEN FiniteV("div", << a, b >>, 0 - 1076) ELSE ZeroV(sg))
    [] a.k = "num" /\ b.k = "num" /\ MulFits(a.n, b.d) /\ MulFits(a.d, b.n) ->
         RatV(SignI(b.n) * a.n * b.d, a.d * AbsI(b.n))
    [] b = IntV(1) -> a
    [] a = b -> IntV(1)
    [] OTHER ->
         SymV("div", << a, b >>, sg, LoOf(a) - HiOf(b), HiOf(a) - LoOf(b))

\* x^e for integers x >= 0 and e >= 0, or -1 when it leaves the exact range
RECURSIVE IPow(_, _)
IPow(x, e) ==
  IF e = 0 \/ x = 1 THEN 1
  ELSE IF x = 0 THEN 0
  ELSE IF e > 31 THEN 0 - 1
  ELSE LET r == IPow(x, e - 1)
       IN  IF r < 0 \/ ~MulFits(r, x) THEN 0 - 1 ELSE r * x

\* v is an exact integer
IsInt(v) == v.k = "num" /\ v.d = 1
IsOddInt(v) == IsInt(v) /\ v.n % 2 = 1

\* a ** b for a finite non-zero a and an exact integer b # 0
PowFiniteInt(a, b) ==
  LET e == AbsI(b.n)
      ec == MinI(e, Unbounded)
      sg == IF SignOf(a) < 0 /\ IsOddInt(b) THEN 0 - 1
            ELSE IF SignOf(a) = 0 /\ IsOddInt(b) THEN 0 ELSE 1
      nn == IPow(AbsI(a.n), e)
      dd == IPow(a.d, e)
      lo == IF b.n > 0 THEN LoOf(a) * ec ELSE 0 - HiOf(a) * ec
      hi == IF b.n > 0 THEN HiOf(a) * ec ELSE 0 - LoOf(a) * ec
  IN  IF MaybeZero(a) THEN UnkV
      ELSE IF a.k = "num" /\ nn >= 0 /\ dd >= 0 /\ b.n > 0
        THEN RatV(sg * nn, dd)
      ELSE IF a.k = "num" /\ nn >= 0 /\ dd >= 0 /\ IsPow2(nn)
        THEN RatV(sg * dd, nn)
      ELSE SymV("pow", << a, b >>, sg, lo, hi)

\* a ** b for a finite positive a # 1 and a finite non-zero b that is no integer
PowFiniteFrac(a, b) ==
  LET m == MaxI(AbsI(LoOf(a)), AbsI(HiOf(a)))
      cb == IF b.k = "num" THEN (AbsI(b.n) + b.d - 1) \div b.d
            ELSE IF HiOf(b) <= 0 THEN 1
            ELSE IF HiOf(b) <= 10 THEN IPow(2, HiOf(b)) ELSE Unbounded
  IN  IF MaybeZero(a) \/ cb >= Unbounded THEN UnkV
      ELSE SymV("pow", << a, b >>, 1, 0 - m * cb, m * cb)

\* a ** b (Number::exponentiate)
Pow(a, b) ==
  CASE a.k = "unk" \/ b.k = "unk" -> UnkV
    [] OTHER ->
  CASE b.k = "nan" -> NaNV
    [] IsZero(b) -> IntV(1)
    [] a.k = "nan" -> NaNV
    [] MaybeZero(b) -> UnkV
    [] b.k = "inf" ->
         (CASE a = IntV(1) \/ a = IntV(0 - 1) -> NaNV
            [] a.k = "inf" -> (IF b.n > 0 THEN InfV(1) ELSE ZeroV(1))
            [] IsZero(a) -> (IF b.n > 0 THEN ZeroV(1) ELSE InfV(1))
            [] (a.k = "sym" /\ a.lo >= 1) \/ (a.k = "num" /\ AbsI(a.n) > a.d) ->
                 (IF b.n > 0 THEN InfV(1) ELSE ZeroV(1))
            [] (a.k = "sym" /\ a.hi < 0 /\ ~MaybeZero(a))
                 \/ (a.k = "num" /\ AbsI(a.n) < a.d) ->
                 (IF b.n > 0 THEN ZeroV(1) ELSE InfV(1))
            [] OTHER -> UnkV)
    [] a.k = "inf" ->
         (IF SignOf(b) = 0 THEN UnkV
          ELSE IF SignOf(b) > 0
            THEN InfV(IF a.n < 0 /\ IsOddInt(b) THEN 0 - 1 ELSE 1)
          ELSE ZeroV(IF a.n < 0 /\ IsOddInt(b) THEN 0 - 1 ELSE 1))
    [] IsZero(a) ->
         (IF SignOf(b) = 0 THEN UnkV
          ELSE IF SignOf(b) > 0
            THEN ZeroV(IF SignOf(a) < 0 /\ IsOddInt(b) THEN 0 - 1 ELSE 1)
          ELSE InfV(IF SignOf(a) < 0 /\ IsOddInt(b) THEN 0 - 1 ELSE 1))
    [] IsInt(b) -> PowFiniteInt(a, b)
    [] a = IntV(1) -> IntV(1)
    [] SignOf(a) = 0 -> UnkV
    [] SignOf(a) < 0 ->
         \* a large double b is an integer although the model keeps it symbolic
         (IF b.k = "num" THEN NaNV ELSE UnkV)
    [] OTHER -> PowFiniteFrac(a, b)

(***************************************************************************)
(* The functions of Math the evaluator's scope uses, on numbers.           *)
(***************************************************************************)
\* the largest r with r * r <= n, searched in lo..hi
RECURSIVE SqrtSearch(_, _, _)
SqrtSearch(n, lo, hi) ==
  IF lo >= hi THEN lo
  ELSE LET mid == (lo + hi + 1) \div 2
       IN  IF mid <= n \div mid THEN SqrtSearch(n, mid, hi)
           ELSE SqrtSearch(n, lo, mid - 1)

ISqrt(n) == SqrtSearch(n, 0, MinI(n, 46340))
IsSquare(n) == ISqrt(n) * ISqrt(n) = n

\* Math.sqrt
MathSqrt(v) ==
  CASE v.k \in {"nan", "unk"} -> v
    [] IsZero(v) -> v
    [] v.k = "inf" -> (IF v.n > 0 THEN v ELSE NaNV)
    [] SignOf(v) = 0 \/ MaybeZero(v) -> UnkV
    [] SignOf(v) < 0 -> NaNV
    [] v.k = "num" /\ IsSquare(v.n) /\ IsSquare(v.d) ->
         RatV(ISqrt(v.n), ISqrt(v.d))
    [] OTHER ->
         SymV("sqrt", << v >>, 1, LoOf(v) \div 2, (HiOf(v) + 1) \div 2)

\* Math.abs
MathAbs(v) ==
  CASE v.k \in {"nan", "unk"} -> v
    [] IsZero(v) -> ZeroV(1)
    [] v.k = "inf" -> InfV(1)
    [] SignOf(v) > 0 -> v
    [] SignOf(v) < 0 -> Neg(v)
    [] OTHER -> SymV("abs", << v >>, IF MaybeZero(v) THEN 0 ELSE 1, v.lo, v.hi)

\* Math.sin, of an angle in radians.  No double but the zeros has a sine,
\* cosine or tangent of zero, and none has an infinite tangent.
MathSin(v) ==
  CASE v.k \in {"nan", "unk"} -> v
    [] v.k = "inf" -> NaNV
    [] IsZero(v) -> v
    [] MaybeZero(v) -> FiniteV("sin", << v >>, 0)
    [] HiOf(v) <= 1 -> SymV("sin", << v >>, SignOf(v), LoOf(v) - 2, 0)
    [] OTHER -> SymV("sin", << v >>, 0, 0 - 80, 0)

\* Math.cos
MathCos(v) ==
  CASE v.k \in {"nan", "unk"} -> v
    [] v.k = "inf" -> NaNV
    [] IsZero(v) -> IntV(1)
    [] HiOf(v) <= 0 -> SymV("cos", << v >>, 1, 0 - 1, 0)
    [] OTHER -> SymV("cos", << v >>, 0, 0 - 80, 0)

\* Math.tan
MathTan(v) ==
  CASE v.k \in {"nan", "unk"} -> v
    [] v.k = "inf" -> NaNV
    [] IsZero(v) -> v
    [] MaybeZero(v) -> FiniteV("tan", << v >>, 80)
    [] HiOf(v) <= 0 -> SymV("tan", << v >>, SignOf(v), LoOf(v), 1)
    [] OTHER -> SymV("tan", << v >>, 0, 0 - 80, 80)

\* Math.log10 (name = "log10") and Math.log (name = "log")
MathLog(name, v) ==
  CASE v.k \in {"nan", "unk"} -> v
    [] IsZero(v) -> InfV(0 - 1)
    [] v.k = "inf" -> (IF v.n > 0 THEN v ELSE NaNV)
    [] SignOf(v) = 0 \/ MaybeZero(v) -> UnkV
    [] SignOf(v) < 0 -> NaNV
    [] v = IntV(1) -> ZeroV(1)
    [] (v.k = "num" /\ v.n > v.d) \/ (v.k = "sym" /\ v.lo >= 1) ->
         SymV(name, << v >>, 1, 0 - 60, 10)
    [] (v.k = "num" /\ v.n < v.d) \/ (v.k = "sym" /\ v.hi < 0) ->
         SymV(name, << v >>, 0 - 1, 0 - 60, 11)
    [] OTHER -> FiniteV(name, << v >>, 11)

\* Math.PI and Math.E
PIV == SymV("PI", << >>, 1, 1, 2)
EV == SymV("E", << >>, 1, 1, 2)

(***************************************************************************)
(* Number literals.                                                        *)
(***************************************************************************)
\* the value of the digits s[i..j-1] in base b, or -1 out of the exact range
RECURSIVE DigitsValue(_, _, _, _)
DigitsValue(s, i, j, b) ==
  IF j <= i THEN 0
  ELSE LET r == DigitsValue(s, i, j - 1, b)
       IN  IF r < 0 \/ r > (MaxInt - 9) \div b THEN 0 - 1
           ELSE r * b + DigitVal(s[j - 1])

\* the double written as the decimal digits s[i..j-1], a point and the
\* decimal digits s[k..l-1] (either run may be empty)
DecimalValue(s, i, j, k, l) ==
  LET ip == DigitsValue(s, i, j, 10)
      fp == DigitsValue(s, k, l, 10)
      sc == IPow(10, l - k)
  IN  IF ip < 0 \/ fp < 0 \/ sc < 0 \/ ~MulFits(ip + 1, sc) THEN UnkV
      ELSE RatV(ip * sc + fp, sc)

(***************************************************************************)
(* factorial (src/utils/math.ts).                                          *)
(***************************************************************************)
\* the integer part of a non-negative value
FloorOf(v) ==
  IF v.k = "num" THEN v.n \div v.d ELSE v.args[1].n \div v.args[1].d

\* the loop of factorial: result *= i for i up to f.  The product leaves the
\* exact range after 12!; it is finite up to 170! and Infinity from 171! on.
RECURSIVE FactLoop(_, _, _)
FactLoop(result, i, f) ==
  IF i > f THEN IntV(result)
  ELSE IF MulFits(result, i) THEN FactLoop(result * i, i + 1, f)
  ELSE IF f >= 171 THEN InfV(1)
  ELSE SymV("fact", << IntV(f) >>, 1, 29, MinI(8 * f, 1020))

factorial(v) ==
  CASE v.k = "unk" -> UnkV
    [] v.k = "nan" -> IntV(1)
    [] v.k = "inf" -> (IF v.n < 0 THEN NaNV ELSE HangV)
    [] IsZero(v) -> IntV(1)
    [] SignOf(v) < 0 -> NaNV
    [] v = IntV(1) -> IntV(1)
    [] v.k = "num" \/ (v.k = "sym" /\ v.op = "q") -> FactLoop(1, 2, FloorOf(v))
    [] OTHER -> UnkV

(***************************************************************************)
(* String(x) of the values factorial returns.  A product that the model    *)
(* does not keep exactly is written as one composite character that names  *)
(* its operand: "!13" stands for the digits of 13!.                        *)
(***************************************************************************)
BigLit(f) == "!" \o ToString(f)
BigLitChars == {BigLit(f) : f \in 13..170}
BigLitOperand(c) == CHOOSE f \in 13..170 : BigLit(f) = c
\* String(13!) .. String(21!) are decimal digits; from 22! on String writes an
\* exponent (1.1240007277776077e+21)
BigLitDecimal == {BigLit(f) : f \in 13..21}

NumberToChars(v) ==
  CASE v.k = "num" -> IntToChars(v.n)
    [] v.k = "inf" -> << "I", "n", "f", "i", "n", "i", "t", "y" >>
    [] v.k = "nan" -> << "N", "a", "N" >>
    [] v.k = "sym" /\ v.op = "fact" -> << BigLit(v.args[1].n) >>
    [] OTHER -> << "?" >>

(***************************************************************************)
(* The rewriting passes of evaluateExpression, in the order of the source. *)
(***************************************************************************)
\* .replace(/\s/g, '')
StripSpace(s) == SelectSeq(s, LAMBDA c : c \notin SpaceChars)

\* .replace(/c/g, r) for one character c and a replacement r
RECURSIVE ReplaceChar(_, _, _)
ReplaceChar(s, c, r) ==
  LET found == {k \in 1..Len(s) : s[k] = c}
  IN  IF found = {} THEN s
      ELSE SubSeq(s, 1, Least(found) - 1) \o r
             \o ReplaceChar(From(s, Least(found) + 1), c, r)

\* .replace(/(?<![0-9.])e(?![0-9+-])/g, 'E')
ReplaceE(s) ==
  [i \in 1..Len(s) |->
     IF /\ s[i] = "e"
        /\ At(s, i - 1) \notin DigitChars \cup {"."}
        /\ At(s, i + 1) \notin DigitChars \cup {"+", "-"}
     THEN "E" ELSE s[i]]

\* .replace(/--/g, '+')
RECURSIVE ReplaceDoubleMinus(_)
ReplaceDoubleMinus(s) ==
  LET found == {k \in 1..Len(s) : s[k] = "-" /\ At(s, k + 1) = "-"}
  IN  IF found = {} THEN s
      ELSE SubSeq(s, 1, Least(found) - 1) \o << "+" >>
             \o ReplaceDoubleMinus(From(s, Least(found) + 2))

\* --- 2. Symbol Replacement ---  (.replace(/abs\(/g, 'abs(') changes nothing)
SymbolReplacement(s) ==
  LET s1 == ReplaceChar(s, Times, << "*" >>)
      s2 == ReplaceChar(s1, Obelus, << "/" >>)
      s3 == ReplaceChar(s2, GlyphPi, << "P", "I" >>)
      s4 == ReplaceE(s3)
      s5 == ReplaceChar(s4, GlyphPhi, << "P", "H", "I" >>)
      s6 == ReplaceChar(s5, "^", << "*", "*" >>)
      s7 == ReplaceChar(s6, GlyphRoot, << "s", "q", "r", "t" >>)
  IN  ReplaceDoubleMinus(s7)

\* .replace(/(l)(r)/g, '$1*$2') for character classes l and r that share no
\* character
RECURSIVE InsertMul(_, _, _)
InsertMul(s, l, r) ==
  LET found == {k \in 1..Len(s) : s[k] \in l /\ At(s, k + 1) \in r}
  IN  IF found = {} THEN s
      ELSE SubSeq(s, 1, Least(found)) \o << "*" >>
             \o InsertMul(From(s, Least(found) + 1), l, r)

\* --- 3. Implicit Multiplication Handling ---
ImplicitMultiplication(s) ==
  LET c1 == InsertMul(s, DigitChars, LetterChars \cup {"("})
      c2 == InsertMul(c1, {")"}, LetterChars \cup DigitChars \cup {"("})
  IN  InsertMul(c2, {"!"}, LetterChars \cup DigitChars \cup {"("})

\* the text left as it is from its i-th character on
NoPrecalc(s, i) == From(s, i)

\* --- 4. Pre-Calculation Processing (Factorials) ---
\* .replace(/(\d+(?:\.\d+)?)!/g, (_, num) => String(factorial(Number(num))))
RECURSIVE PrecalcFactorials(_, _)
PrecalcFactorials(s, i) ==
  LET digits == {k \in i..Len(s) : s[k] \in DigitChars}
      \* the next digit: no match starts before it
      d == Least(digits)
      j == DigitsEnd(s, d)
      k == DigitsEnd(s, j + 1)
  IN  IF digits = {} THEN From(s, i)
      ELSE IF At(s, j) = "!"
        THEN SubSeq(s, i, d - 1)
               \o NumberToChars(factorial(DecimalValue(s, d, j, j, j)))
               \o PrecalcFactorials(s, j + 1)
      ELSE IF At(s, j) = "." /\ k > j + 1 /\ At(s, k) = "!"
        THEN SubSeq(s, i, d - 1)
               \o NumberToChars(factorial(DecimalValue(s, d, j, j + 1, k)))
               \o PrecalcFactorials(s, k + 1)
      ELSE SubSeq(s, i, d) \o PrecalcFactorials(s, d + 1)

\* the text evaluateExpression hands to new Function
Sanitize(expression) ==
  PrecalcFactorials(
    ImplicitMultiplication(SymbolReplacement(StripSpace(expression))), 1)

(***************************************************************************)
(* The text is the body of a JavaScript function, "return <text>;": what   *)
(* follows reads it as the language does.  A position past the end of the  *)
(* text by one is its end; past the end by two, a comment left open.       *)
(***************************************************************************)
\* the characters of an identifier after its first
IdentChars == LetterChars \cup DigitChars \cup BigLitChars

RECURSIVE Join(_)
\* the string of a sequence of characters
Join(cs) ==
  IF cs = << >> THEN ""
  ELSE IF Len(cs) = 1 THEN cs[1]
  ELSE Join(SubSeq(cs, 1, Len(cs) \div 2))
         \o Join(SubSeq(cs, Len(cs) \div 2 + 1, Len(cs)))

\* the index of the first "*/" at or after i, or 0
RECURSIVE CommentClose(_, _)
CommentClose(s, i) ==
  IF i + 1 > Len(s) THEN 0
  ELSE IF s[i] = "*" /\ s[i + 1] = "/" THEN i
  ELSE CommentClose(s, i + 1)

\* the position of the next token at or after p: comments are skipped
RECURSIVE Skip(_, _)
Skip(s, p) ==
  IF At(s, p) = "/" /\ At(s, p + 1) = "/" THEN Len(s) + 1
  ELSE IF At(s, p) = "/" /\ At(s, p + 1) = "*"
    THEN LET c == CommentClose(s, p + 2)
         IN  IF c = 0 THEN Len(s) + 2 ELSE Skip(s, c + 2)
  ELSE p

\* the punctuator at p, by the longest match
Punct(s, p) ==
  IF At(s, p) = "*" /\ At(s, p + 1) = "*" THEN "**"
  ELSE IF At(s, p) = "+" /\ At(s, p + 1) = "+" THEN "++"
  ELSE At(s, p)

\* the end of the run of identifier characters that starts at i
IdentEnd(s, i) ==
  Least({k \in i..(Len(s) + i) : At(s, k) \notin IdentChars})

\* what a parsing step returns: the value v, the position p after it, the
\* number rc of calls of Math.random made so far, and the kind of reference
\* the expression is ("": none; "const": a const of the function body; "ro": a
\* property that cannot be written; "rw": a property of the host environment
\* that can; "tmp": a property of a value that does not outlive the call)
R(v, p, rc, ref) ==
  [stop |-> v.k \in {"synerr", "nosyn"}, v |-> v, p |-> p, rc |-> rc,
   ref |-> ref]

IsErr(v) == v.k \in {"synerr", "nosyn", "rterr", "hang"}

\* the reading stopped at x
Stop(x) == x.stop

(***************************************************************************)
(* Numeric literals (DecimalLiteral, LegacyOctalIntegerLiteral).           *)
(***************************************************************************)
\* mantissa * 10^x, where sx is the sign of the exponent and x its magnitude
Scaled(m, sx, x) ==
  LET xc == MinI(x, Unbounded) IN
  IF m.k = "unk" THEN UnkV
  ELSE IF IsZero(m) THEN m
  ELSE IF x <= 9 /\ m.k = "num" /\ sx > 0 /\ MulFits(m.n, IPow(10, x))
    THEN RatV(m.n * IPow(10, x), m.d)
  ELSE IF x <= 9 /\ m.k = "num" /\ sx < 0 /\ MulFits(m.d, IPow(10, x))
    THEN RatV(m.n, m.d * IPow(10, x))
  ELSE IF sx > 0
    THEN SymV("lit", << m, IntV(x) >>, 1, LoOf(m) + 3 * xc, HiOf(m) + 4 * xc)
  ELSE SymV("lit", << m, IntV(0 - x) >>, 1, LoOf(m) - 4 * xc, HiOf(m) - 3 * xc)

\* the exponent part that starts at i (after the mantissa m), if there is one:
\* e or E, a sign or none, digits
ExponentPart(s, i, m) ==
  LET sgn == IF At(s, i + 1) \in {"+", "-"} THEN 1 ELSE 0
      d0 == i + 1 + sgn
      d1 == DigitsEnd(s, d0)
      sx == IF At(s, i + 1) = "-" THEN 0 - 1 ELSE 1
      x == DigitsValue(s, d0, d1, 10)
  IN  IF At(s, i) \notin {"e", "E"} THEN R(m, i, 0, "")
      ELSE IF At(s, d0) \in BigLitDecimal
        \* an exponent of ten digits or more
        THEN R(Scaled(m, sx, Unbounded), d0 + 1, 0, "")
      ELSE IF d1 = d0 THEN R(SynErr, i, 0, "")
      ELSE R(Scaled(m, sx, IF x < 0 THEN Unbounded ELSE x), d1, 0, "")

\* the numeric literal that starts at p
NumericLiteral(s, p) ==
  LET c == At(s, p)
      j == DigitsEnd(s, p)
      k == DigitsEnd(s, j + 1)
      octal == c = "0" /\ j > p + 1
                 /\ \A i \in p..(j - 1) : s[i] \notin {"8", "9"}
      big == IF c \in BigLitChars
               THEN SymV("fact", << IntV(BigLitOperand(c)) >>, 1, 29,
                         MinI(8 * BigLitOperand(c), 1020))
             ELSE UnkV
      lit ==
        CASE c \in BigLitChars /\ c \notin BigLitDecimal -> R(big, p + 1, 0, "")
          [] c \in BigLitDecimal /\ At(s, p + 1) # "." -> R(big, p + 1, 0, "")
          [] c \in BigLitDecimal /\ At(s, p + 2) \in BigLitDecimal ->
               R(SymV("lit", << big, IntV(BigLitOperand(At(s, p + 2))) >>, 1,
                      big.lo, big.hi + 1), p + 3, 0, "")
          [] c \in BigLitDecimal ->
               LET f == DigitsEnd(s, p + 2)
                   fr == DecimalValue(s, p, p, p + 2, f)
                   m == IF IsZero(fr) THEN big
                        ELSE SymV("lit", << big, fr >>, 1, big.lo, big.hi + 1)
               IN  ExponentPart(s, f, m)
          [] c = "." /\ At(s, p + 1) \in BigLitDecimal ->
               R(SymV("lit", << IntV(BigLitOperand(At(s, p + 1))) >>, 1, 0 - 4, 0),
                 p + 2, 0, "")
          [] c = "." -> ExponentPart(s, k, DecimalValue(s, p, p, p + 1, k))
          [] octal -> R(IF DigitsValue(s, p, j, 8) < 0 THEN UnkV
                        ELSE IntV(DigitsValue(s, p, j, 8)), j, 0, "")
          [] At(s, j) = "." ->
               ExponentPart(s, k, DecimalValue(s, p, j, j + 1, k))
          [] OTHER -> ExponentPart(s, j, DecimalValue(s, p, j, j, j))
  IN  \* no identifier and no digit may follow a numeric literal at once
      IF lit.v.k # "synerr" /\ At(s, lit.p) \in IdentChars
        THEN R(SynErr, lit.p, 0, "")
      ELSE lit

\* p is where a numeric literal starts
StartsNumber(s, p) ==
  \/ At(s, p) \in DigitChars \cup BigLitChars
  \/ At(s, p) = "." /\ At(s, p + 1) \in DigitChars \cup BigLitDecimal

(***************************************************************************)
(* Regular expression literals.                                            *)
(***************************************************************************)
\* the index of the first "/" at or after i, or 0
RECURSIVE SlashAt(_, _)
SlashAt(s, i) ==
  IF i > Len(s) THEN 0 ELSE IF s[i] = "/" THEN i ELSE SlashAt(s, i + 1)

\* the pattern s[i..j-1] is one: its parentheses match (depth counts the open
\* ones) and each quantifier follows an atom
RECURSIVE PatternOk(_, _, _, _)
PatternOk(s, i, j, depth) ==
  IF i >= j THEN depth = 0
  ELSE IF s[i] = "(" THEN PatternOk(s, i + 1, j, depth + 1)
  ELSE IF s[i] = ")" THEN depth > 0 /\ PatternOk(s, i + 1, j, depth - 1)
  ELSE IF s[i] \in {"*", "+"}
    THEN At(s, i - 1) \notin {"/", "(", "*", "+"} /\ PatternOk(s, i + 1, j, depth)
  ELSE PatternOk(s, i + 1, j, depth)

\* the flags s[i..j-1] are flags, each at most once, u and v not together
FlagsOk(s, i, j) ==
  /\ \A a \in i..(j - 1) : s[a] \in {"d", "g", "i", "m", "s", "u", "v", "y"}
  /\ \A a, b \in i..(j - 1) : a # b => s[a] # s[b]
  /\ ~(\E a, b \in i..(j - 1) : s[a] = "u" /\ s[b] = "v")

\* the characters of the patterns read here
PatternChars ==
  DigitChars \cup LetterChars \cup {"(", ")", "*", "+", ".", "-", "!"}

\* the regular expression literal that starts at p (s[p] = "/")
RegexLiteral(s, p) ==
  LET c == SlashAt(s, p + 1)
      f == IdentEnd(s, c + 1)
  IN  IF c = 0 THEN R(SynErr, p, 0, "")
      ELSE IF \E i \in (p + 1)..(c - 1) : s[i] \notin PatternChars
        THEN R(NoSyn, p, 0, "")
      ELSE IF ~PatternOk(s, p + 1, c, 0) \/ ~FlagsOk(s, c + 1, f)
        THEN R(SynErr, p, 0, "")
      ELSE R(RegexV, f, 0, "tmp")

(***************************************************************************)
(* The scope of the function body (const PI ... const abs) and the host    *)
(* environment behind it.                                                  *)
(***************************************************************************)
\* the values Math.random returns in the model, in the order of its calls
RandomValues == << RatV(1, 4), RatV(3, 4) >>

\* const degToRad = Math.PI / 180
degToRad == Div(PIV, IntV(180))

\* const PHI = (1 + Math.sqrt(5)) / 2
PHIV == Div(Add(IntV(1), MathSqrt(IntV(5))), IntV(2))

ScopeFunctions ==
  {"sin", "cos", "tan", "csc", "sec", "cot", "log", "ln", "sqrt", "abs"}

\* the value of the identifier name, and the kind of reference it is
Identifier(name) ==
  CASE name = "PI" -> R(PIV, 0, 0, "const")
    [] name = "E" -> R(EV, 0, 0, "const")
    [] name = "PHI" -> R(PHIV, 0, 0, "const")
    [] name = "log" -> R(FnV("Math.log10"), 0, 0, "const")
    [] name = "ln" -> R(FnV("Math.log"), 0, 0, "const")
    [] name = "sqrt" -> R(FnV("Math.sqrt"), 0, 0, "const")
    [] name = "abs" -> R(FnV("Math.abs"), 0, 0, "const")
    [] name \in ScopeFunctions -> R(FnV(name), 0, 0, "const")
    [] name = "Math" -> R(ObjV("Math"), 0, 0, "rw")
    [] name = "Infinity" -> R(InfV(1), 0, 0, "ro")
    [] name = "NaN" -> R(NaNV, 0, 0, "ro")
    \* ReferenceError: name is not defined
    [] OTHER -> R(RtErr, 0, 0, "const")

\* the functions of Math the model gives a meaning
MathFunctions == {"sin", "cos", "tan", "log", "log10", "sqrt", "abs", "random"}

\* the properties of Math, of a function, of a number and of a regular
\* expression that the model gives no meaning
HostProperties ==
  {"acos", "acosh", "asin", "asinh", "atan", "atanh", "atan2", "cbrt", "ceil",
   "clz32", "cosh", "exp", "expm1", "floor", "fround", "hypot", "imul",
   "log1p", "log2", "max", "min", "pow", "round", "sign", "sinh", "tanh",
   "trunc", "LN10", "LN2", "LOG10E", "LOG2E", "SQRT1", "SQRT2",
   "constructor", "toString", "valueOf", "toLocaleString", "hasOwnProperty",
   "isPrototypeOf", "propertyIsEnumerable", "length", "name", "call", "apply",
   "bind", "arguments", "caller", "prototype", "toFixed", "toPrecision",
   "toExponential", "exec", "test", "source", "flags", "global", "ignoreCase",
   "multiline", "lastIndex", "sticky", "unicode", "dotAll", "hasIndices",
   "unicodeSets", "compile"}

\* a function of the host, which outlives the call (the arrows of the body do
\* not)
IsHostFunction(v) == v.k = "fn" /\ v.op \notin ScopeFunctions \cup {"arrow"}

\* v[i]
Index(v, i) ==
  LET ref == IF v.k = "obj" \/ IsHostFunction(v) THEN "rw" ELSE "tmp" IN
  CASE v.k = "undef" -> R(RtErr, 0, 0, "")
    \* the key is the source of the function i, of the function in [i]
    [] (i.k = "fn" \/ (i.k = "arr" /\ Len(i.args) = 1 /\ i.args[1].k = "fn"))
         /\ v.k \notin {"str", "unk"} -> R(UndefV, 0, 0, ref)
    [] ~(i.k = "num" /\ i.d = 1 /\ i.n >= 0 /\ i.op = "") -> R(UnkV, 0, 0, ref)
    [] v.k = "arr" /\ i.n < Len(v.args) -> R(v.args[i.n + 1], 0, 0, ref)
    [] v.k \in {"str", "unk"} -> R(UnkV, 0, 0, ref)
    [] OTHER -> R(UndefV, 0, 0, ref)

\* v.name
Member(v, name) ==
  CASE v.k = "undef" -> R(RtErr, 0, 0, "")
    [] name \in HostProperties -> R(UnkV, 0, 0, "rw")
    [] v.k = "obj" /\ name = "PI" -> R(PIV, 0, 0, "ro")
    [] v.k = "obj" /\ name = "E" -> R(EV, 0, 0, "ro")
    [] v.k = "obj" /\ name \in MathFunctions ->
         R(FnV("Math." \o name), 0, 0, "rw")
    [] v.k = "obj" -> R(UndefV, 0, 0, "rw")
    [] OTHER -> R(UndefV, 0, 0, IF IsHostFunction(v) THEN "rw" ELSE "tmp")

\* the argument handed on as it is given, in either mode
AngleAsGiven(x, angleMode) == ToNumber(x)

\* angleMode === 'deg' ? x * degToRad : x
Angle(x, angleMode) ==
  IF angleMode = "deg" THEN Mul(ToNumber(x), degToRad) ELSE ToNumber(x)

\* the call f(x) of the function named f; rnd is what Math.random returns
Apply(f, x, angleMode, rnd) ==
  CASE f = "sin" -> MathSin(Angle(x, angleMode))
    [] f = "cos" -> MathCos(Angle(x, angleMode))
    [] f = "tan" -> MathTan(Angle(x, angleMode))
    [] f = "csc" -> Div(IntV(1), MathSin(Angle(x, angleMode)))
    [] f = "sec" -> Div(IntV(1), MathCos(Angle(x, angleMode)))
    [] f = "cot" -> Div(IntV(1), MathTan(Angle(x, angleMode)))
    [] f = "Math.sin" -> MathSin(ToNumber(x))
    [] f = "Math.cos" -> MathCos(ToNumber(x))
    [] f = "Math.tan" -> MathTan(ToNumber(x))
    [] f = "Math.log" -> MathLog("log", ToNumber(x))
    [] f = "Math.log10" -> MathLog("log10", ToNumber(x))
    [] f = "Math.sqrt" -> MathSqrt(ToNumber(x))
    [] f = "Math.abs" -> MathAbs(ToNumber(x))
    [] f = "Math.random" -> rnd
    [] OTHER -> UnkV

(***************************************************************************)
(* The operators of the language on values.                                *)
(***************************************************************************)
IsStringy(v) ==
  \/ v.k \in {"fn", "obj", "regex", "str"}
  \/ v.k = "arr" /\ Len(v.args) = 1 /\ v.args[1].k = "fn"

\* a + b: a concatenation when an operand is an object (its primitive is a
\* string that is no numeral: the source of a function, "[object Math]", the
\* source of a regular expression), else the sum of the numbers
Plus(a, b) ==
  IF (a.k = "arr" /\ ~IsStringy(a)) \/ (b.k = "arr" /\ ~IsStringy(b)) THEN UnkV
  ELSE IF IsStringy(a) \/ IsStringy(b) THEN StrV
  ELSE Add(ToNumber(a), ToNumber(b))

\* a op b for the other binary operators
Arith(op, a, b) ==
  CASE op = "+" -> Plus(a, b)
    [] op = "-" -> Sub(ToNumber(a), ToNumber(b))
    [] op = "*" -> Mul(ToNumber(a), ToNumber(b))
    [] op = "/" -> Div(ToNumber(a), ToNumber(b))
    [] op = "**" -> Pow(ToNumber(a), ToNumber(b))

\* op v for the unary operators + - !
Unary(op, v) ==
  CASE op = "+" -> ToNumber(v)
    [] op = "-" -> Neg(ToNumber(v))
    [] op = "!" -> (IF v.k = "unk" \/ MaybeZero(v) THEN UnkV
                    ELSE BoolV(~ToBoolean(v)))

\* ++x (prefix) and x++ of an expression of value v that is the reference ref
Update(prefix, v, ref) ==
  CASE v.k = "nosyn" -> NoSyn
    [] v.k = "synerr" \/ ref \in {"", "unary"} -> SynErr
    [] IsErr(v) -> v
    \* the update of a call: a SyntaxError in some engines, a ReferenceError
    \* after the call in others
    [] ref = "call" -> RtErr
    \* TypeError: Assignment to constant variable
    [] ref = "const" -> RtErr
    \* the host environment is written: not modelled
    [] ref = "rw" -> UnkV
    [] prefix -> Add(ToNumber(v), IntV(1))
    [] OTHER -> ToNumber(v)

\* the result of the operator op whose operands l and then r were evaluated:
\* the first error wins, and no call is made after it
Combine(op, l, r) ==
  IF l.stop THEN l
  ELSE IF r.stop THEN r
  ELSE IF IsErr(l.v) THEN R(l.v, r.p, l.rc, "")
  ELSE IF IsErr(r.v) THEN R(r.v, r.p, r.rc, "")
  ELSE R(Arith(op, l.v, r.v), r.p, r.rc, "")

(***************************************************************************)
(* The expression after "return", read and evaluated from left to right.   *)
(* e is the environment: the text e.s, the angle mode e.mode, the state    *)
(* e.rng of the generator behind Math.random and the number e.rc of calls  *)
(* of Math.random made so far.  Each step starts at a position p.          *)
(***************************************************************************)
\* words of the language and names of the host that the model gives no meaning
NotModelled ==
  {"in", "if", "do", "of", "new", "var", "let", "try", "this", "true",
   "null", "void", "with", "else", "case", "enum", "eval", "false", "class",
   "const", "while", "yield", "await", "async", "super", "throw", "break",
   "typeof", "delete", "return", "switch", "import", "export", "static",
   "function", "continue", "debugger", "default", "extends", "finally",
   "instanceof", "undefined", "arguments", "window", "self", "top", "name",
   "length", "status", "close", "open", "stop", "find", "print", "parent"}

\* the characters the reading below knows
KnownChars ==
  DigitChars \cup LetterChars \cup BigLitChars
    \cup {"+", "-", "*", "/", "(", ")", ".", "!", "[", "]", "=", ">", "{", "}",
          ";"}

\* the name s[p..j-1]
NameAt(s, p, j) == Join(SubSeq(s, p, j - 1))

\* the text t is at the position p of s
TextAt(s, p, t) == \A i \in 1..Len(t) : At(s, p + i - 1) = t[i]

\* () =>
ArrowHead == << "(", ")", "=", ">" >>

\* for (;;);
LoopForever == << "f", "o", "r", "(", ";", ";", ")", ";" >>

\* the i-th call of Math.random (from 0) in an evaluation
Random(e, i) == RandomValues[((e.rng + i) % Len(RandomValues)) + 1]

RECURSIVE ParseAssign(_, _), Statements(_, _), Climb(_, _, _),
          ParseUnary(_, _), LHSTail(_, _), ParseLHS(_, _)

\* the environment after rc calls of Math.random
After(e, rc) == [e EXCEPT !.rc = rc]

\* x, read after rc calls
Literal(x, rc) == R(x.v, x.p, rc, x.ref)

\* the identifier name, that starts at p and ends before j
Named(name, p, j, rc) ==
  IF name = "for" THEN R(SynErr, p, 0, "")
  ELSE IF name \in NotModelled THEN R(NoSyn, p, 0, "")
  ELSE Literal(R(Identifier(name).v, j, 0, Identifier(name).ref), rc)

\* the member l.v.name, where the name ends before j
Dot(l, name, j) ==
  IF IsErr(l.v) THEN R(l.v, j, l.rc, "tmp")
  ELSE Literal(R(Member(l.v, name).v, j, 0, Member(l.v, name).ref), l.rc)

\* what the call of an arrow function gives at p, where body is what running
\* its statements gave: a body without a return statement returns undefined
Returned(body, p) ==
  R(IF IsErr(body.v) THEN body.v ELSE UndefV, p, body.rc, "call")

\* l.v(x.v) if call, l.v[x.v] if not, where p is the position after the
\* closing bracket
Access(e, l, x, p, call) ==
  IF IsErr(l.v) THEN R(l.v, p, l.rc, IF call THEN "call" ELSE "tmp")
  ELSE IF IsErr(x.v) THEN R(x.v, p, x.rc, IF call THEN "call" ELSE "tmp")
  ELSE IF ~call
    THEN Literal(R(Index(l.v, x.v).v, p, 0, Index(l.v, x.v).ref), x.rc)
  \* TypeError: l is not a function
  ELSE IF l.v.k # "fn" THEN R(RtErr, p, x.rc, "call")
  ELSE IF l.v.op = "Math.random" THEN R(Random(e, x.rc), p, x.rc + 1, "call")
  ELSE IF l.v.op = "arrow" THEN Returned(Statements(After(e, x.rc), l.v.n), p)
  ELSE R(Apply(l.v.op, x.v, e.mode, UnkV), p, x.rc, "call")

\* the result of an update whose value is v
Updated(v, p, rc) == R(v, p, IF v.k = "synerr" THEN 0 ELSE rc, "")

\* ++x, where x is the operand
Prefix(x) ==
  IF x.stop THEN x
  ELSE IF x.ref = "call" /\ x.rc > 0 THEN R(UnkV, x.p, x.rc, "")
  ELSE Updated(Update(TRUE, x.v, x.ref), x.p, x.rc)

\* l++, if ++ follows the expression l
Postfix(s, l) ==
  LET z == Skip(s, l.p)
  IN  IF l.stop \/ Punct(s, z) # "++" THEN l
      \* the engines differ on the calls made before the error
      ELSE IF l.ref = "call" /\ l.rc > 0 THEN R(UnkV, z + 2, l.rc, "")
      ELSE Updated(Update(FALSE, l.v, l.ref), z + 2, l.rc)

\* the member accesses and the calls that follow the expression l, and the ++
\* after them
LHSTail(e, l) ==
  LET s == e.s
      q == Skip(s, l.p)
      c == At(s, q)
      j == IdentEnd(s, q + 1)
      a == Skip(s, q + 1)
      x == IF c = "(" /\ At(s, a) = ")" THEN R(UndefV, a, l.rc, "")
           ELSE ParseAssign(After(e, l.rc), q + 1)
      z == Skip(s, x.p)
  IN  IF l.stop THEN l
      ELSE IF c = "." THEN
        (IF At(s, q + 1) \notin LetterChars THEN R(SynErr, q, 0, "")
         ELSE LHSTail(e, Dot(l, NameAt(s, q + 1, j), j)))
      ELSE IF c \in {"[", "("} THEN
        (IF x.stop THEN x
         ELSE IF At(s, z) # (IF c = "(" THEN ")" ELSE "]")
           THEN R(SynErr, z, 0, "")
         ELSE LHSTail(e, Access(e, l, x, z + 1, c = "(")))
      ELSE Postfix(s, l)

\* LeftHandSideExpression and the ++ after it: a PrimaryExpression (a
\* literal, an identifier, ( Expression ), [ element ]) and what follows it
ParseLHS(e, p0) ==
  LET s == e.s
      p == Skip(s, p0)
      c == At(s, p)
      a == Skip(s, p + 1)
      x == ParseAssign(e, p + 1)
      q == Skip(s, x.p)
  IN  CASE p > Len(s) -> R(SynErr, p, 0, "")
        [] StartsNumber(s, p) ->
             LHSTail(e, Literal(NumericLiteral(s, p), e.rc))
        [] c \in LetterChars ->
             LHSTail(e, Named(NameAt(s, p, IdentEnd(s, p)), p, IdentEnd(s, p),
                              e.rc))
        [] c = "(" ->
             IF At(s, a) = ")" /\ ~TextAt(s, p, << "(", ")" >>)
               THEN R(NoSyn, p, 0, "")
             ELSE IF x.stop THEN x
             ELSE IF At(s, q) # ")" THEN R(SynErr, q, 0, "")
             ELSE LHSTail(e, R(x.v, q + 1, x.rc,
                               IF x.ref = "unary" THEN "" ELSE x.ref))
        [] c = "[" ->
             IF At(s, a) = "]" THEN LHSTail(e, R(ArrV(<< >>), a + 1, e.rc, ""))
             ELSE IF x.stop THEN x
             ELSE IF At(s, q) # "]" THEN R(SynErr, q, 0, "")
             ELSE IF IsErr(x.v) THEN LHSTail(e, R(x.v, q + 1, x.rc, ""))
             ELSE LHSTail(e, R(ArrV(<< x.v >>), q + 1, x.rc, ""))
        [] c = "/" -> LHSTail(e, Literal(RegexLiteral(s, p), e.rc))
        \* an object literal
        [] c = "{" -> R(NoSyn, p, 0, "")
        [] OTHER -> R(SynErr, p, 0, "")

\* UnaryExpression: + - ! ++ before an operand, or an operand and what
\* follows it
ParseUnary(e, p) ==
  LET s == e.s
      q == Skip(s, p)
      c == Punct(s, q)
      x == ParseUnary(e, q + (IF c = "++" THEN 2 ELSE 1))
  IN  IF c \in {"+", "-", "!"}
        THEN (IF IsErr(x.v) THEN R(x.v, x.p, x.rc, "unary")
              ELSE R(Unary(c, x.v), x.p, x.rc, "unary"))
      ELSE IF c = "++" THEN Prefix(x)
      ELSE ParseLHS(e, q)

\* the precedence of the binary operator c, 0 if it is none
Precedence(c) ==
  CASE c \in {"+", "-"} -> 1
    [] c \in {"*", "/"} -> 2
    [] c = "**" -> 3
    [] OTHER -> 0

\* the binary operators of precedence min and more that follow the operand l
\* (AdditiveExpression, MultiplicativeExpression, ExponentiationExpression):
\* ** is right-associative, and its base takes no unary operator (-2 ** 2 is
\* a SyntaxError); an additive expression ends the AssignmentExpression if no
\* operator of another kind follows it
Climb(e, l, min) ==
  LET s == e.s
      q == Skip(s, l.p)
      c == Punct(s, q)
  IN  IF l.stop THEN l
      ELSE IF Precedence(c) < min \/ Precedence(c) = 0 THEN
        (IF min = 1 /\ (At(s, q) \in {"=", ">"}
                          \/ (At(s, q) = "i" /\ At(s, q + 1) = "n"))
           THEN R(NoSyn, q, 0, "")
         ELSE l)
      ELSE IF c = "**" /\ l.ref = "unary" THEN R(SynErr, q, 0, "")
      ELSE Climb(e,
                 Combine(c, l,
                         Climb(e, ParseUnary(After(e, l.rc),
                                             q + (IF c = "**" THEN 2 ELSE 1)),
                               IF c = "**" THEN 3 ELSE Precedence(c) + 1)),
                 min)

\* AssignmentExpression: the arrow function () => { statements }, or an
\* additive expression
ParseAssign(e, p) ==
  LET s == e.s
      q == Skip(s, p)
      body == Statements(e, q + 5)
  IN  IF TextAt(s, q, ArrowHead)
        THEN (IF At(s, q + 4) # "{" THEN R(NoSyn, q, 0, "")
              ELSE IF body.stop THEN body
              ELSE R(Arrow(q + 5), body.p + 1, e.rc, ""))
      ELSE Climb(e, ParseUnary(e, q), 1)

\* the statements of a function body from p to its closing brace, where the
\* reading ends: for (;;); and expression statements.  The value is what
\* running them throws, if they throw, or that they never end.
Statements(e, p) ==
  LET s == e.s
      q == Skip(s, p)
      loop == Statements(e, q + Len(LoopForever))
      x == ParseAssign(e, q)
      z == Skip(s, x.p)
      after == IF At(s, z) = ";" THEN z + 1 ELSE z
      rest == Statements(IF IsErr(x.v) THEN e ELSE After(e, x.rc), after)
  IN  CASE q > Len(s) -> R(SynErr, q, 0, "")
        [] At(s, q) = "}" -> R(UndefV, q, e.rc, "")
        [] At(s, q) = ";" -> Statements(e, q + 1)
        [] TextAt(s, q, LoopForever) ->
             (IF loop.stop THEN loop ELSE R(HangV, loop.p, e.rc, ""))
        \* a block, another statement
        [] At(s, q) = "{" \/ TextAt(s, q, << "f", "o", "r" >>) ->
             R(NoSyn, q, 0, "")
        [] x.stop -> x
        [] At(s, z) \notin {";", "}"} -> R(SynErr, z, 0, "")
        [] rest.stop -> rest
        [] IsErr(x.v) -> R(x.v, rest.p, x.rc, "")
        [] OTHER -> rest

\* the text after "return", where x is the reading of its expression
Program(s, x) ==
  LET q == Skip(s, x.p)
  IN  IF x.stop THEN x
      \* the statements after the return statement
      ELSE IF At(s, q) = ";" THEN R(NoSyn, q, 0, "")
      ELSE IF q <= Len(s) \/ q = Len(s) + 2 THEN R(SynErr, q, 0, "")
      ELSE x

\* calculate(): the value of new Function(functionBody)() on the text e.s
\* (a SyntaxError is thrown by new Function, before anything is evaluated)
calculate(e) ==
  LET s == e.s
      p == Skip(s, 1)
  IN  IF p = Len(s) + 2 THEN R(SynErr, p, 0, "")
      \* return ;
      ELSE IF p > Len(s) THEN R(UndefV, p, 0, "")
      ELSE Program(s, ParseAssign(e, 1))

(***************************************************************************)
(* evaluateExpression and formatResult.                                    *)
(***************************************************************************)
\* the three messages; a returned string is the value Msg(text)
DivideByZero == "Can't divide by 0"
InvalidInput == "Invalid Input"
FormatError == "Format Error"
Messages == {DivideByZero, InvalidInput, FormatError}
Msg(text) == Plain("msg", 0, text)

\* the global isFinite(v): of ToNumber(v)
isFinite(v) == ToNumber(v).k \notin {"nan", "inf"}

\* the global isNaN(v)
isNaN(v) == ToNumber(v).k = "nan"

\* typeof v === 'number'
TypeofNumber(v) == v.k \in {"num", "sym", "inf", "nan"}

\* the validation without its test of finiteness
ValidateUnchecked(result) ==
  CASE result.k \in {"unk", "hang"} -> result
    [] result.k = "nosyn" -> UnkV
    [] result.k \in {"synerr", "rterr"} -> Msg(FormatError)
    [] ~TypeofNumber(result) \/ isNaN(result) -> Msg(InvalidInput)
    [] OTHER -> result

\* --- 6. Result Validation ---, and the catch around the whole
Validate(result) ==
  CASE result.k \in {"unk", "hang"} -> result
    [] result.k = "nosyn" -> UnkV
    [] result.k \in {"synerr", "rterr"} -> Msg(FormatError)
    [] ~isFinite(result) -> Msg(DivideByZero)
    [] ~TypeofNumber(result) \/ isNaN(result) -> Msg(InvalidInput)
    [] OTHER -> result

\* what evaluateExpression returns (out) when calculate() gave x
Outcome(x) == [value |-> x.v, rc |-> x.rc, out |-> Validate(x.v)]

\* evaluateExpression(expression, angleMode) in a host whose generator is in
\* the state rng: what it returns (out), what calculate() gave (value) and the
\* calls of Math.random it made (rc)
evaluateExpression(expression, angleMode, rng) ==
  LET sanitizedExpr == Sanitize(expression)
  IN  IF expression = << >>
        THEN [value |-> Plain("none", 0, ""), rc |-> 0, out |-> IntV(0)]
      \* a text that the reading gives no meaning to
      ELSE IF \E i \in 1..Len(sanitizedExpr) :
                sanitizedExpr[i] \notin KnownChars
        THEN Outcome(R(UnkV, 0, 0, ""))
      ELSE Outcome(calculate([s |-> sanitizedExpr, mode |-> angleMode,
                              rng |-> rng, rc |-> 0]))

\* the text String writes for a number, kept as the number it writes
Numeral(v) == V("text", 0, 1, 0, 0, 0, "", << v >>)

\* formatResult(result), for a number or a string
formatResult(result) ==
  CASE result.k = "msg" -> result
    [] result.k \in {"unk", "hang"} -> result
    [] ~isFinite(result) -> Msg(DivideByZero)
    [] isNaN(result) -> Msg(InvalidInput)
    \* String(Math.round(result)), String(fraction): a numeral
    [] OTHER -> Numeral(result)

(***************************************************************************)
(* decimalToFraction (src/utils/math.ts).  The doubles of the expansion    *)
(* are followed by the rationals they stand for.  A double is the rational *)
(* itself ("num") or a double within 2^-40 of the rational args[1]: the    *)
(* nearest one (op = "q"), one on either side of it (op = "near") or one   *)
(* that is not below it (op = "above").  Where the rational is an integer  *)
(* the side decides Math.floor and the steps that follow: every side is    *)
(* followed.  op = "huge" is the reciprocal of a rounding residue (2^40 at *)
(* least), op = "rest" the reciprocal of the fractional part of such a     *)
(* double.                                                                 *)
(***************************************************************************)
\* the rational a double of the expansion stands for
Ideal(v) == IF v.k = "num" THEN v ELSE v.args[1]

Approximate(v) == v.k = "sym" /\ v.op \in {"q", "near", "above"}

\* a double within the rounding of the rational n / d > 0, on the side op
Approx(op, n, d) ==
  LET g == GCD(n, d)
      rn == n \div g
      rd == d \div g
  IN  SymV(op, << V("num", rn, rd, 0, 0, 0, "", << >>) >>, 1,
           FloorLog2(rn) - CeilLog2(rd), CeilLog2(rn) - FloorLog2(rd))

Huge == SymV("huge", << >>, 1, 40, 52)
Rest == SymV("rest", << >>, 1, 0, 12)

\* Math.floor(b): the values it may have
MathFloor(b) ==
  CASE b.k = "num" -> {IntV(b.n \div b.d)}
    [] b.k = "sym" /\ b.op \in {"q", "near"} /\ Ideal(b).d = 1 ->
         {IntV(Ideal(b).n), IntV(Ideal(b).n - 1)}
    [] Approximate(b) -> {IntV(Ideal(b).n \div Ideal(b).d)}
    [] OTHER -> {b}

\* b left as it is
ReciprocalKept(b, a) == {b}

\* 1 / (b - a) for a = Math.floor(b): the values it may have
Reciprocal(b, a) ==
  LET d == Ideal(b).d
      \* b - a is r / d
      r == Ideal(b).n - a.n * d
  IN  CASE b.k = "num" -> {IF r = 0 THEN InfV(1) ELSE RatV(d, r)}
        \* b is the integer a or above it by a residue
        [] Approximate(b) /\ r = 0 -> {InfV(1), Huge}
        \* b is below the integer a + 1 by a residue
        [] Approximate(b) /\ d = 1 -> {Approx("above", 1, 1)}
        [] Approximate(b) -> {Approx("near", d, r)}
        [] b.k = "sym" -> {InfV(1), Rest}
        \* Infinity - Infinity, NaN
        [] OTHER -> {NaNV}

\* whether d * t > x for the integers d >= 0, t > 0 and x; where the two are
\* equal, the rounding of the doubles they stand for decides
Greater(d, x, t) ==
  IF x % t = 0 /\ d = x \div t THEN {TRUE, FALSE} ELSE {d > x \div t}

\* Math.abs(value - sign * h1 / k1) > value * tolerance (relative) or
\* > tolerance: the values it may have
Apart(value, sign, h1, k1, tolerance, relative) ==
  LET p == Ideal(value).n
      q == Ideal(value).d
  IN  CASE IsInt(h1) /\ IsInt(k1) /\ k1.n # 0 ->
             Greater(AbsI(p * k1.n - sign * h1.n * q),
                     (IF relative THEN p ELSE q) * k1.n * Ideal(tolerance).n,
                     Ideal(tolerance).d)
        [] Div(h1, k1).k = "nan" -> {FALSE}
        [] Div(h1, k1).k = "inf" -> {TRUE}
        [] relative /\ p < 0 -> {TRUE}
        [] OTHER -> {TRUE, FALSE}

\* k1 <= maxDenominator: the values it may have
AtMost(k1, maxDenominator) ==
  CASE IsInt(k1) -> {k1.n <= maxDenominator}
    [] k1.k = "inf" -> {k1.n < 0}
    [] k1.k = "nan" -> {FALSE}
    [] k1.k = "sym" /\ k1.sg > 0 /\ k1.lo > FloorLog2(maxDenominator) -> {FALSE}
    [] OTHER -> {TRUE, FALSE}

\* k1 > maxDenominator: the values it may have
Over(k1, maxDenominator) ==
  CASE IsInt(k1) -> {k1.n > maxDenominator}
    [] k1.k = "inf" -> {k1.n > 0}
    [] k1.k = "nan" -> {FALSE}
    [] k1.k = "sym" /\ k1.sg > 0 /\ k1.lo > FloorLog2(maxDenominator) -> {TRUE}
    [] OTHER -> {TRUE, FALSE}

\* the condition of the do ... while: the values it may have
While(value, sign, h1, k1, tolerance, maxDenominator) ==
  {far /\ small : far \in Apart(value, sign, h1, k1, tolerance, TRUE),
                  small \in AtMost(k1, maxDenominator)}

\* the string `${n}/${d}`
FractionText(n, d) == V("text", 0, 1, 0, 0, 0, "/", << n, d >>)

\* what decimalToFraction returns after the loop without its test of the
\* tolerance
ReturnUnchecked(value, sign, h1, k1, tolerance, maxDenominator) ==
  {IF over THEN value ELSE FractionText(Mul(IntV(sign), h1), k1) :
     over \in Over(k1, maxDenominator)}

\* what decimalToFraction returns after the loop: the values it may have
Return(value, sign, h1, k1, tolerance, maxDenominator) ==
  {IF over \/ far THEN value ELSE FractionText(Mul(IntV(sign), h1), k1) :
     over \in Over(k1, maxDenominator),
     far \in Apart(value, sign, h1, k1, tolerance, FALSE)}

(***************************************************************************)
(* The loop of factorial in doubles.  A product is kept as a double is, an *)
(* odd integer times a power of two, the odd integer by its digits (base   *)
(* 10000, the least first): it is a double when the odd integer is below   *)
(* 2^53.                                                                   *)
(***************************************************************************)
RECURSIVE MulDigits(_, _, _)
\* the digits of x * m + carry
MulDigits(x, m, carry) ==
  IF x = << >> THEN (IF carry = 0 THEN << >> ELSE << carry >>)
  ELSE << (Head(x) * m + carry) % 10000 >>
         \o MulDigits(Tail(x), m, (Head(x) * m + carry) \div 10000)

RECURSIVE LessDigits(_, _)
\* x < y
LessDigits(x, y) ==
  IF Len(x) # Len(y) THEN Len(x) < Len(y)
  ELSE IF x = << >> THEN FALSE
  ELSE IF x[Len(x)] # y[Len(y)] THEN x[Len(x)] < y[Len(y)]
  ELSE LessDigits(SubSeq(x, 1, Len(x) - 1), SubSeq(y, 1, Len(y) - 1))

\* 2^53 = 9007199254740992 and 2^24 = 16777216
TwoTo53 == << 992, 5474, 1992, 9007 >>
TwoTo24 == << 7216, 1677 >>

RECURSIVE OddOf(_)
\* i without its factors 2, for i > 0
OddOf(i) == IF i % 2 = 0 THEN OddOf(i \div 2) ELSE i

RECURSIVE TwosOf(_)
\* the number of factors 2 of i, for i > 0
TwosOf(i) == IF i % 2 = 0 THEN 1 + TwosOf(i \div 2) ELSE 0

\* a double that stands for the integer odd * 2^twos, odd in digits; exact
\* is false once a product had to be rounded, and the digits are then those
\* of the product without the rounding
Product(exact, odd, twos) ==
  [k |-> "num", exact |-> exact, odd |-> odd, twos |-> twos]
NotANumber == [k |-> "nan", exact |-> TRUE, odd |-> << >>, twos |-> 0]

\* result *= i with a significand of 24 bits
MultiplySingle(result, i) ==
  LET p == MulDigits(result.odd, OddOf(i), 0)
  IN  Product(result.exact /\ LessDigits(p, TwoTo24), p,
              result.twos + TwosOf(i))

\* result *= i: the significand of a double has 53 bits
Multiply(result, i) ==
  LET p == MulDigits(result.odd, OddOf(i), 0)
  IN  Product(result.exact /\ LessDigits(p, TwoTo53), p,
              result.twos + TwosOf(i))

\* n < 0, for a number n
Below(n, m) ==
  CASE n.k = "num" -> n.n < m * n.d
    [] n.k = "inf" -> n.n < 0
    [] OTHER -> FALSE

\* n < -1
BelowMinusOne(n) == Below(n, 0 - 1)

\* n < 0
Negative(n) == Below(n, 0)

\* i <= n
Reaches(n, i) ==
  CASE n.k = "num" -> i * n.d <= n.n
    [] n.k = "inf" -> n.n > 0
    [] OTHER -> FALSE

(***************************************************************************)
(* The calculator session (App, src/unnamed/part_001).  Its strings are    *)
(* sequences of characters; each of the error messages is kept as one      *)
(* character, and so is "?", a numeral whose digits the model does not     *)
(* write.                                                                  *)
(***************************************************************************)
\* the error messages as strings of the session
Text(message) == << message >>

\* const isError = (val) => ['Error', "Can't divide by 0", 'Invalid Input',
\* 'Format Error'].includes(val)
isError(val) ==
  val \in {Text("Error"), Text(DivideByZero), Text(InvalidInput),
           Text(FormatError)}

\* a numeral that is not written digit by digit
Unwritten == << "?" >>

\* every digit of the numeral is written
Written(s) == \A i \in 1..Len(s) : s[i] # "?" /\ s[i] \notin BigLitChars

\* the labels of the keys that are not their own characters
PowerLabel == "x^y"
SquareLabel == "x^2"
AbsLabel == "|x|"
ReciprocalLabel == "1/x"
SignLabel == "+/-"

\* String(n) for an integer n that is printed in decimal
SignedChars(n) == IF n < 0 THEN << "-" >> \o IntToChars(0 - n) ELSE IntToChars(n)

RECURSIVE FractionDigits(_, _, _)
\* the decimal digits of r / d < 1 after the point, at most k of them; "?"
\* when they do not end
FractionDigits(r, d, k) ==
  IF r = 0 THEN << >>
  ELSE IF k = 0 THEN Unwritten
  ELSE LET rest == FractionDigits((r * 10) % d, d, k - 1)
       IN  IF rest = Unwritten THEN Unwritten
           ELSE << DigitChar((r * 10) \div d) >> \o rest

\* the decimal numeral of n / d, d > 0, where it has 15 digits at most
DecimalChars(n, d) ==
  LET a == AbsI(n)
      fr == IF d > MaxInt \div 10 THEN Unwritten
            ELSE FractionDigits(a % d, d, 15)
      whole == IntToChars(a \div d)
  IN  IF fr = Unwritten \/ Len(whole) + Len(fr) > 15 THEN Unwritten
      ELSE (IF n < 0 THEN << "-" >> ELSE << >>) \o whole
             \o (IF fr = << >> THEN << >> ELSE << "." >> \o fr)

\* String(Math.PI), String(Math.E), String((1 + Math.sqrt(5)) / 2)
PiText ==
  << "3", ".", "1", "4", "1", "5", "9", "2", "6", "5", "3", "5", "8", "9",
     "7", "9", "3" >>
EText ==
  << "2", ".", "7", "1", "8", "2", "8", "1", "8", "2", "8", "4", "5", "9",
     "0", "4", "5" >>
PhiText ==
  << "1", ".", "6", "1", "8", "0", "3", "3", "9", "8", "8", "7", "4", "9",
     "8", "9", "5" >>

\* String(x) for a number x
String(x) ==
  CASE x.k = "num" /\ x.d = 1 -> SignedChars(x.n)
    [] (x.k = "num" /\ x.d > 1) \/ (x.k = "sym" /\ x.op = "q") ->
         DecimalChars(Ideal(x).n, Ideal(x).d)
    [] x.k = "inf" ->
         (IF x.n < 0 THEN << "-" >> ELSE << >>) \o NumberToChars(x)
    [] x.k = "nan" -> NumberToChars(x)
    [] x.k = "sym" /\ x.op = "fact" -> NumberToChars(x)
    [] x = PIV -> PiText
    [] x = EV -> EText
    [] x = PHIV -> PhiText
    [] OTHER -> Unwritten

\* the largest denominator and the largest magnitude of the fractions the
\* model writes: below them the expansion of decimalToFraction ends at the
\* fraction in lowest terms
MaxWritten == 1000

\* the one element of a set of one element
Only(S) == CHOOSE x \in S : TRUE

\* the string formatResult(result) returns
FormatText(result) ==
  Only({LET x == IF f.k = "text" THEN f.args[1] ELSE f
        IN  CASE f.k = "msg" -> Text(f.op)
              [] f.k # "text" -> Unwritten
              \* String(Math.round(result))
              [] x.k = "num" /\ x.d = 1 -> SignedChars(x.n)
              [] ~((x.k = "num" /\ x.d > 1) \/ (x.k = "sym" /\ x.op = "q")) ->
                   Unwritten
              \* String(decimalToFraction(preciseResult)): the fraction
              [] Ideal(x).n > 0 /\ Ideal(x).d <= MaxWritten
                   /\ Ideal(x).n <= MaxWritten * Ideal(x).d ->
                   IntToChars(Ideal(x).n) \o << "/" >> \o IntToChars(Ideal(x).d)
              \* a negative value is returned as it is
              [] Ideal(x).n < 0 -> DecimalChars(Ideal(x).n, Ideal(x).d)
              [] OTHER -> Unwritten :
        f \in {formatResult(result)}})

\* parseFloat(s)
ParseFloat(s) ==
  LET sg == IF At(s, 1) \in {"-", "+"} THEN 1 ELSE 0
      i == 1 + sg
      j == DigitsEnd(s, i)
      l == IF At(s, j) = "." THEN DigitsEnd(s, j + 1) ELSE j
      x == IF l > j THEN DecimalValue(s, i, j, j + 1, l)
           ELSE DecimalValue(s, i, j, j, j)
  IN  CASE s = PiText -> PIV
        [] s = EText -> EV
        [] s = PhiText -> PHIV
        [] At(s, i) = "?" \/ At(s, i) \in BigLitChars -> UnkV
        \* no digit
        [] j = i /\ l <= j + 1 -> NaNV
        \* an exponent
        [] At(s, l) \in {"e", "E"}
             /\ (At(s, l + 1) \in DigitChars
                   \/ (At(s, l + 1) \in {"+", "-"} /\ At(s, l + 2) \in DigitChars)) ->
             UnkV
        [] At(s, 1) = "-" -> Neg(x)
        [] OTHER -> x

\* s.trim()
RECURSIVE Trim(_)
Trim(s) ==
  IF s # << >> /\ s[1] \in SpaceChars THEN Trim(Tail(s))
  ELSE IF s # << >> /\ s[Len(s)] \in SpaceChars
    THEN Trim(SubSeq(s, 1, Len(s) - 1))
  ELSE s

\* s.replace(/^0+/, '')
RECURSIVE StripZeros(_)
StripZeros(s) == IF s # << >> /\ s[1] = "0" THEN StripZeros(Tail(s)) ELSE s

\* ')'.repeat(k)
Repeat(c, k) == [i \in 1..k |-> c]

\* interface CalculatorState: a snapshot of the session
CalculatorState(app) ==
  [expression |-> app.expression, displayValue |-> app.displayValue,
   overwrite |-> app.overwrite, openParenCount |-> app.openParenCount]

\* the session with the fields of a snapshot set
Restore(app, snapshot) ==
  [app EXCEPT !.expression = snapshot.expression,
              !.displayValue = snapshot.displayValue,
              !.overwrite = snapshot.overwrite,
              !.openParenCount = snapshot.openParenCount]

\* newStack.slice(0, 50)
StackLimit == 50

\* s.slice(0, k)
Slice(s, k) == IF Len(s) > k THEN SubSeq(s, 1, k) ELSE s

\* saveState without its limit
saveAll(app) ==
  [app EXCEPT !.undoStack = << CalculatorState(app) >> \o @,
              !.redoStack = << >>]

\* saveState()
saveState(app) ==
  [app EXCEPT !.undoStack = Slice(<< CalculatorState(app) >> \o @, StackLimit),
              !.redoStack = << >>]

\* an undo that keeps the session as it is
handleUndoKept(app) ==
  IF app.undoStack = << >> THEN app
  ELSE [app EXCEPT !.redoStack = << CalculatorState(app) >> \o @,
                   !.undoStack = Tail(@)]

\* handleUndo()
handleUndo(app) ==
  IF app.undoStack = << >> THEN app
  ELSE [Restore(app, app.undoStack[1])
          EXCEPT !.redoStack = << CalculatorState(app) >> \o @,
                 !.undoStack = Tail(@)]

\* a redo that pushes nothing
handleRedoPushless(app) ==
  IF app.redoStack = << >> THEN app
  ELSE [Restore(app, app.redoStack[1]) EXCEPT !.redoStack = Tail(@)]

\* handleRedo()
handleRedo(app) ==
  IF app.redoStack = << >> THEN app
  ELSE [Restore(app, app.redoStack[1])
          EXCEPT !.undoStack = << CalculatorState(app) >> \o @,
                 !.redoStack = Tail(@)]

\* the text ' = ' between the two parts of a history entry
Equals == << " ", "=", " " >>

\* entry.split(' = ')[1]: the text between the first ' = ' and the next, or
\* << >> where there is none (undefined)
SplitResult(entry) ==
  LET cuts == {i \in 1..Len(entry) : SubSeq(entry, i, MinI(i + 2, Len(entry))) = Equals}
      first == Least(cuts)
      rest == From(entry, first + 3)
      more == {i \in 1..Len(rest) : SubSeq(rest, i, MinI(i + 2, Len(rest))) = Equals}
  IN  IF cuts = {} THEN << >>
      ELSE IF more = {} THEN rest
      ELSE SubSeq(rest, 1, Least(more) - 1)

\* handleHistoryItemClick(entry)
handleHistoryItemClick(app, entry) ==
  LET saved == saveState(app)
      result == SplitResult(entry)
  IN  IF result # << >>
        THEN [saved EXCEPT !.displayValue = result, !.expression = << >>,
                           !.overwrite = TRUE]
      ELSE saved

\* !isNaN(Number(sanitized)) || /^\d+\/\d+$/.test(sanitized), for a text
\* without commas and spaces around it
IsPastable(sanitized) ==
  LET j == DigitsEnd(sanitized, 1)
      l == DigitsEnd(sanitized, j + 1)
      sg == IF At(sanitized, 1) \in {"-", "+"} THEN 1 ELSE 0
      a == DigitsEnd(sanitized, 1 + sg)
      z == IF At(sanitized, a) = "." THEN DigitsEnd(sanitized, a + 1) ELSE a
  IN  \/ j > 1 /\ At(sanitized, j) = "/" /\ l > j + 1 /\ l = Len(sanitized) + 1
      \* a decimal literal with an optional sign
      \/ z = Len(sanitized) + 1 /\ (a > 1 + sg \/ z > a + 1)

\* handlePaste(text)
handlePaste(app, text) ==
  LET sanitized == Trim(ReplaceChar(text, ",", << >>))
  IN  IF isError(app.displayValue) THEN app
      ELSE IF IsPastable(sanitized) /\ sanitized # << >>
        THEN [saveState(app) EXCEPT !.displayValue = sanitized,
                                    !.overwrite = FALSE]
      ELSE app

\* the keys that write a function name and an open parenthesis
FunctionLabels ==
  {"sin", "cos", "tan", "csc", "sec", "cot", "log", "ln", GlyphRoot, AbsLabel}

\* const funcName = funcMap[value] || value, in characters
FuncName(value) ==
  CASE value = "sin" -> << "s", "i", "n" >>
    [] value = "cos" -> << "c", "o", "s" >>
    [] value = "tan" -> << "t", "a", "n" >>
    [] value = "csc" -> << "c", "s", "c" >>
    [] value = "sec" -> << "s", "e", "c" >>
    [] value = "cot" -> << "c", "o", "t" >>
    [] value = "log" -> << "l", "o", "g" >>
    [] value = "ln" -> << "l", "n" >>
    [] value = GlyphRoot -> << GlyphRoot >>
    [] value = AbsLabel -> << "a", "b", "s" >>

\* /\s[+\-×÷^]\s$/.test(currentExpression)
EndsWithOperator(currentExpression) ==
  LET m == Len(currentExpression)
  IN  /\ m >= 3
      /\ currentExpression[m - 2] \in SpaceChars
      /\ currentExpression[m - 1] \in {"+", "-", Times, Obelus, "^"}
      /\ currentExpression[m] \in SpaceChars

\* case '=' of handleButtonClick
PressEquals(saved) ==
  LET finalExpression ==
        saved.expression \o saved.displayValue
          \o (IF saved.openParenCount > 0
                THEN Repeat(")", saved.openParenCount) ELSE << >>)
  IN  Only({LET newHistoryEntry ==
                  StripSpace(finalExpression) \o Equals \o formattedResult
            IN  [saved EXCEPT !.openParenCount = 0,
                              !.finalExpression = << finalExpression >>,
                              !.history = IF isError(formattedResult) THEN @
                                          ELSE << newHistoryEntry >> \o @,
                              !.displayValue = formattedResult,
                              !.expression = << >>,
                              !.overwrite = TRUE] :
            formattedResult \in
              {FormatText(evaluateExpression(finalExpression,
                                             saved.angleMode, 0).out)}})

\* the rest of case '%' once the base expression is evaluated
PercentOf(saved, percentVal, op, baseExpr, baseValue) ==
  LET percentageAmount == Mul(Div(percentVal, IntV(100)), baseValue)
      percentageDecimal == Div(percentVal, IntV(100))
      percentResult ==
        CASE op = "+" -> Add(baseValue, percentageAmount)
          [] op = "-" -> Sub(baseValue, percentageAmount)
          [] op = Times -> Mul(baseValue, percentageDecimal)
          [] op = Obelus -> Div(baseValue, percentageDecimal)
      fullOriginalExpression ==
        baseExpr \o << " ", op, " " >> \o saved.displayValue \o << "%" >>
  IN  \* typeof baseValueResult === 'string'
      IF baseValue.k = "msg"
        THEN [saved EXCEPT !.displayValue = Text(baseValue.op),
                           !.expression = << >>, !.overwrite = TRUE]
      ELSE Only({LET newHistoryEntry ==
                       StripSpace(fullOriginalExpression) \o Equals
                         \o resultString
                 IN  [saved EXCEPT !.history = << newHistoryEntry >> \o @,
                                   !.displayValue = resultString,
                                   !.expression = << >>,
                                   !.overwrite = TRUE,
                                   !.openParenCount = 0] :
                 resultString \in {FormatText(percentResult)}})

\* case '%' of handleButtonClick
PressPercent(saved) ==
  LET trimmedExpression == Trim(saved.expression)
      op == At(trimmedExpression, Len(trimmedExpression))
      baseExpr == Trim(SubSeq(trimmedExpression, 1, Len(trimmedExpression) - 1))
  IN  Only({LET \* String(percentVal / 100): the decimal numeral, for an
                \* integer
                hundredth ==
                  [saved EXCEPT
                     !.displayValue = IF IsInt(percentVal)
                                        THEN String(Div(percentVal, IntV(100)))
                                      ELSE Unwritten,
                     !.overwrite = TRUE]
            IN  IF isNaN(percentVal) THEN saved
                ELSE IF trimmedExpression = << >> THEN hundredth
                ELSE IF op \notin {"+", "-", Times, Obelus} THEN hundredth
                ELSE Only({PercentOf(saved, percentVal, op, baseExpr,
                                     baseValueResult) :
                           baseValueResult \in
                             {evaluateExpression(baseExpr, saved.angleMode,
                                                 0).out}}) :
            percentVal \in {ParseFloat(saved.displayValue)}})

\* case '!' of handleButtonClick
PressFactorial(saved) ==
  Only({[saved EXCEPT
           !.displayValue = IF isNaN(num) THEN Text(InvalidInput)
                            ELSE Only({IF ~isFinite(result) \/ isNaN(result)
                                         THEN Text(InvalidInput)
                                       ELSE String(result) :
                                       result \in {factorial(num)}}),
           !.overwrite = TRUE] :
        num \in {ParseFloat(saved.displayValue)}})

\* case '1/x' of handleButtonClick
PressReciprocal(saved) ==
  Only({IF IsZero(val)
          THEN [saved EXCEPT !.displayValue = Text(DivideByZero),
                             !.overwrite = TRUE]
        ELSE IF ~isNaN(val)
          THEN [saved EXCEPT !.displayValue = FormatText(Div(IntV(1), val)),
                             !.overwrite = TRUE]
        ELSE saved :
        val \in {ParseFloat(saved.displayValue)}})

\* handleButtonClick(value)
handleButtonClick(app, value) ==
  LET saved == saveState(app)
      expression == app.expression
      displayValue == app.displayValue
      overwrite == app.overwrite
      openParenCount == app.openParenCount
      operator == IF value = PowerLabel THEN "^" ELSE value
      currentExpression == expression \o displayValue
      newValue == SubSeq(displayValue, 1, Len(displayValue) - 1)
      deleted == IF newValue = << >> \/ newValue = << "-" >> THEN << "0" >>
                 ELSE newValue
      valToSquare == IF At(displayValue, 1) = "-"
                       THEN << "(" >> \o displayValue \o << ")" >>
                     ELSE displayValue
  IN  IF isError(displayValue) /\ value # "AC" THEN app
      ELSE IF value \in {"DEG", "RAD"}
        THEN [app EXCEPT !.angleMode = IF @ = "deg" THEN "rad" ELSE "deg"]
      ELSE
      \* the keys that edit the digits of a numeral the model does not write
      IF ~Written(displayValue) /\ value \in {"DEL", SignLabel, "."}
        THEN [saved EXCEPT !.displayValue = Unwritten]
      ELSE IF ~Written(displayValue) /\ value \in DigitChars /\ ~overwrite
        THEN [saved EXCEPT !.displayValue = Unwritten]
      ELSE
      CASE value = "AC" ->
             [saved EXCEPT !.expression = << >>, !.displayValue = << "0" >>,
                           !.overwrite = TRUE, !.openParenCount = 0]
        [] value = "DEL" ->
             IF displayValue # << "0" >>
               THEN [saved EXCEPT !.displayValue = deleted,
                                  !.overwrite = IF deleted = << "0" >> THEN TRUE
                                                ELSE @]
             ELSE saved
        [] value = SignLabel ->
             IF displayValue = << "0" >> THEN saved
             ELSE IF At(displayValue, 1) = "-"
               THEN [saved EXCEPT !.displayValue = Tail(displayValue)]
             ELSE [saved EXCEPT !.displayValue = << "-" >> \o displayValue]
        [] value = "=" -> PressEquals(saved)
        [] value = "%" -> PressPercent(saved)
        [] value \in {"+", "-", Times, Obelus, PowerLabel} ->
             [saved EXCEPT
                !.expression =
                  IF EndsWithOperator(currentExpression)
                    THEN SubSeq(currentExpression, 1, Len(currentExpression) - 3)
                           \o << " ", operator, " " >>
                  ELSE currentExpression \o << " ", operator, " " >>,
                !.overwrite = TRUE]
        [] value = "." ->
             IF \E i \in 1..Len(displayValue) : displayValue[i] = "."
               THEN saved
             ELSE IF overwrite
               THEN [saved EXCEPT !.displayValue = << "0", "." >>,
                                  !.overwrite = FALSE]
             ELSE [saved EXCEPT !.displayValue = displayValue \o << "." >>]
        [] value \in FunctionLabels ->
             [saved EXCEPT
                !.expression = expression \o StripZeros(displayValue)
                                 \o FuncName(value) \o << "(" >>,
                !.openParenCount = @ + 1,
                !.overwrite = TRUE]
        [] value = "!" -> PressFactorial(saved)
        [] value = SquareLabel ->
             [saved EXCEPT !.expression = expression \o valToSquare
                                            \o << "^", "2" >>,
                           !.overwrite = TRUE]
        [] value = ReciprocalLabel -> PressReciprocal(saved)
        [] value = "(" ->
             [saved EXCEPT
                !.expression = IF overwrite THEN expression \o << "(" >>
                               ELSE expression \o StripZeros(displayValue)
                                      \o << "*", "(" >>,
                !.openParenCount = @ + 1,
                !.overwrite = TRUE]
        [] value = ")" ->
             IF openParenCount > 0
               THEN [saved EXCEPT
                       !.expression = expression \o displayValue \o << ")" >>,
                       !.openParenCount = @ - 1,
                       !.overwrite = TRUE]
             ELSE saved
        [] value \in {GlyphPi, "e", GlyphPhi} ->
             [saved EXCEPT
                !.displayValue = CASE value = GlyphPi -> String(PIV)
                                   [] value = "e" -> String(EV)
                                   [] OTHER -> String(PHIV),
                !.overwrite = TRUE]
        \* default: a number key
        [] OTHER ->
             IF overwrite
               THEN [saved EXCEPT !.displayValue = << value >>,
                                  !.overwrite = FALSE]
             ELSE [saved EXCEPT
                     !.displayValue = IF displayValue = << "0" >> THEN << value >>
                                      ELSE displayValue \o << value >>]

(***************************************************************************)
(* The currency rates (src/unnamed/part_000).  A rate is kept in           *)
(* hundredths: 1.0 is 100.                                                 *)
(***************************************************************************)
DefaultCurrencies ==
  {"USD", "EUR", "GBP", "JPY", "INR", "CAD", "AUD", "CNY", "CHF", "SGD"}

DEFAULT_EXCHANGE_RATES ==
  [c \in DefaultCurrencies |->
     CASE c = "USD" -> 100 [] c = "EUR" -> 92 [] c = "GBP" -> 79
       [] c = "JPY" -> 15150 [] c = "INR" -> 8350 [] c = "CAD" -> 136
       [] c = "AUD" -> 152 [] c = "CNY" -> 723 [] c = "CHF" -> 91
       [] c = "SGD" -> 135]

\* { ...fresh } alone
SpreadLast(prev, fresh) == fresh

\* { ...prev, ...fresh }
Spread(prev, fresh) ==
  [c \in (DOMAIN prev) \cup (DOMAIN fresh) |->
     IF c \in DOMAIN fresh THEN fresh[c] ELSE prev[c]]

\* const newRates = { USD: 1.0, ...data.rates }
NewRates(rates) == Spread([c \in {"USD"} |-> 100], rates)

\* convertCurrency(amount, from, to, rates) of a finite amount: 0 where a
\* rate is missing or 0
convertCurrency(amount, from, to, rates) ==
  IF from \notin DOMAIN rates \/ to \notin DOMAIN rates THEN IntV(0)
  ELSE IF rates[from] = 0 \/ rates[to] = 0 THEN IntV(0)
  ELSE Mul(Div(amount, RatV(rates[from], 100)), RatV(rates[to], 100))

\* getExchangeRate(from, to, rates): 0 where a rate is missing or 0
getExchangeRate(from, to, rates) ==
  IF from \notin DOMAIN rates \/ to \notin DOMAIN rates THEN IntV(0)
  ELSE IF rates[from] = 0 \/ rates[to] = 0 THEN IntV(0)
  ELSE RatV(rates[to], rates[from])

(***************************************************************************)
(* The state machine: an expression is typed key by key, evaluated (twice, *)
(* in a host whose generator moves with each call of Math.random) and its  *)
(* result formatted.                                                       *)
(***************************************************************************)
\* the keys of a session: the characters each appends to the expression
ArithmeticKeys ==
  << << "2" >>, << "3" >>, << "+" >>, << "*" >>, << "(" >>, << ")" >> >>
DivisionKeys ==
  << << "5" >>, << "0" >>, << Obelus >>, << "/" >>, << "." >>, << "-" >> >>
ScientificKeys ==
  << << "1" >>, << "e" >>, << "5" >>, << "+" >>, << "-" >>, << "." >> >>
ReciprocalKeys ==
  << << "c", "s", "c", "(" >>, << "s", "e", "c", "(" >>,
     << "c", "o", "t", "(" >>, << "0" >>, << "3" >>, << ")" >> >>
HostKeys ==
  << << "M", "a", "t", "h", "." >>, << "P", "I" >>,
     << "r", "a", "n", "d", "o", "m", "(" >>, << ")" >>, << "*" >>, << "2" >> >>
RootKeys ==
  << << GlyphRoot, "(" >>, << "-" >>, << "1" >>, << ")" >>, << " " >>, << "!" >> >>

ArrowKeys ==
  << << "[" >> \o ArrowHead \o << "{" >> \o LoopForever
       \o << "}", "]", "[", "0", "]" >>,
     << "(", ")" >>, << "(" >>, << ")" >> >>

\* a leading minus and the power key
PowerKeys ==
  << << "-" >>, << "2" >>, << "^" >>, << "3" >>, << "(" >>, << ")" >> >>

\* the function keys, and an argument with and without its parentheses
FunctionKeys ==
  << << GlyphRoot >>, << "l", "o", "g" >>, << "l", "n" >>, << "a", "b", "s" >>,
     << "(", "9", ")" >>, << "9" >> >>
TrigKeys ==
  << << "s", "i", "n" >>, << "c", "o", "s" >>, << "t", "a", "n" >>,
     << "(", "9", "0", ")" >>, << "(", "0", ")" >>, << "3", "0" >> >>

\* literals and the factorial mark
FactorialKeys ==
  << << "5" >>, << "!" >>, << "2" >>, << "+" >>, << "0" >>, << "." >> >>

AngleModes == {"deg", "rad"}

\* the sessions: the keys, the angle mode, the state of the generator
Setups ==
  {[keys |-> k, mode |-> "deg", rng |-> 0] :
     k \in {ArithmeticKeys, DivisionKeys, ScientificKeys, RootKeys,
            ArrowKeys, PowerKeys, FunctionKeys, FactorialKeys}}
    \cup {[keys |-> k, mode |-> m, rng |-> 0] :
            k \in {ReciprocalKeys, TrigKeys}, m \in AngleModes}
    \cup {[keys |-> HostKeys, mode |-> "deg", rng |-> g] :
            g \in 0..(Len(RandomValues) - 1)}

\* no value yet
None == Plain("none", 0, "")

\* the values formatResult is applied to beside the results of an evaluation
FormatInputs ==
  {NaNV, InfV(1), InfV(0 - 1), IntV(0), IntV(7), RatV(1, 2), RatV(1, 3)}
    \cup {Msg(m) : m \in Messages}

VARIABLES keys, expression, typed, angleMode, rng, computed, result, previous,
          formatted, display

\* a call of decimalToFraction: its arguments and its locals
VARIABLES value, tolerance, maxDenominator, sign, h1, h2, k1, k2, b

\* a call of factorial: its argument and its locals result (product) and i
\* (factor)
VARIABLES n, product, factor

\* the state of App: the session of the calculator, and the last string its
\* '=' handed to evaluateExpression (none before the first)
VARIABLES displayValue, overwrite, openParenCount, history, undoStack,
          redoStack, finalExpression

\* the state of App: the currencies chosen and the rates
VARIABLES currencyFrom, currencyTo, exchangeRates, ratesLoaded

\* where the call in progress stands ("idle": none), and what it returned
VARIABLES pc, returned

calculatorVars ==
  << keys, expression, typed, angleMode, rng, computed, result, previous,
     formatted, display >>

fractionVars == << value, tolerance, maxDenominator, sign, h1, h2, k1, k2, b >>

factorialVars == << n, product, factor >>

sessionVars ==
  << displayValue, overwrite, openParenCount, history, undoStack, redoStack,
     finalExpression >>
currencyVars == << currencyFrom, currencyTo, exchangeRates, ratesLoaded >>
appVars == << sessionVars, currencyVars >>

vars ==
  << calculatorVars, fractionVars, factorialVars, appVars, pc, returned >>

\* no session of the calculator
NoSession ==
  /\ keys = << >>
  /\ angleMode = "deg"
  /\ rng = 0
  /\ expression = << >>
  /\ typed = 0
  /\ computed = None
  /\ result = None
  /\ previous = None
  /\ formatted = None
  /\ display = None

\* no call of decimalToFraction
NoFraction ==
  /\ value = None
  /\ tolerance = None
  /\ maxDenominator = 0
  /\ sign = 0
  /\ h1 = None
  /\ h2 = None
  /\ k1 = None
  /\ k2 = None
  /\ b = None

\* no call of factorial
NoFactorial ==
  /\ n = None
  /\ product = None
  /\ factor = 0

\* App as it is mounted: the session
NoApp ==
  /\ displayValue = << "0" >>
  /\ overwrite = TRUE
  /\ openParenCount = 0
  /\ history = << >>
  /\ undoStack = << >>
  /\ redoStack = << >>
  /\ finalExpression = << >>

\* App as it is mounted: the currencies
NoCurrency ==
  /\ currencyFrom = "USD"
  /\ currencyTo = "EUR"
  /\ exchangeRates = DEFAULT_EXCHANGE_RATES
  /\ ratesLoaded = FALSE

Init ==
  \E u \in Setups :
    /\ keys = u.keys
    /\ angleMode = u.mode
    /\ rng = u.rng
    /\ expression = << >>
    /\ typed = 0
    /\ computed = None
    /\ result = None
    /\ previous = None
    /\ formatted = None
    /\ display = None
    /\ NoFraction
    /\ NoFactorial
    /\ NoApp
    /\ NoCurrency
    /\ pc = "idle"
    /\ returned = None

\* a key appends its characters to the expression
Type(i) ==
  /\ result = None
  /\ formatted = None
  /\ typed < MaxKeys
  /\ expression' = expression \o keys[i]
  /\ typed' = typed + 1
  /\ UNCHANGED << keys, angleMode, rng, computed, result, previous, formatted,
                  display >>
  /\ UNCHANGED << fractionVars, factorialVars, appVars, pc, returned >>

\* result = evaluateExpression(expression, angleMode), a first time and then
\* once more; the calls of Math.random it makes move the generator of the host
Evaluate ==
  /\ previous = None
  /\ result.k # "hang"
  /\ formatted = None
  /\ \E r \in {evaluateExpression(expression, angleMode, rng)} :
       /\ computed' = r.value
       /\ result' = r.out
       /\ rng' = (rng + r.rc) % Len(RandomValues)
  /\ previous' = result
  /\ UNCHANGED << keys, expression, typed, angleMode, formatted, display >>
  /\ UNCHANGED << fractionVars, factorialVars, appVars, pc, returned >>

\* formatResult(result) of the result of the evaluation
Format ==
  /\ result # None
  /\ result.k # "hang"
  /\ formatted = None
  /\ formatted' = result
  /\ display' = formatResult(result)
  /\ UNCHANGED << keys, expression, typed, angleMode, rng, computed, result,
                  previous >>
  /\ UNCHANGED << fractionVars, factorialVars, appVars, pc, returned >>

\* formatResult(v) of a value computed elsewhere (1 / val, a percentage)
FormatValue(v) ==
  /\ result = None
  /\ typed = 0
  /\ formatted = None
  /\ formatted' = v
  /\ display' = formatResult(v)
  /\ UNCHANGED << keys, expression, typed, angleMode, rng, computed, result,
                  previous >>
  /\ UNCHANGED << fractionVars, factorialVars, appVars, pc, returned >>

Next ==
  \/ \E i \in 1..Len(keys) : Type(i)
  \/ Evaluate
  \/ Format
  \/ \E v \in FormatInputs : FormatValue(v)

Spec == Init /\ [][Next]_vars

(***************************************************************************)
(* A call of decimalToFraction, statement by statement.                    *)
(***************************************************************************)
\* the values converted are the doubles nearest p / q
MaxNumerator == 10
MaxDivisor == 6

\* the defaults of the parameters: tolerance = 1.0E-9 (one in 1000000000),
\* maxDenominator = 1000000
ToleranceDefault == 1000000000
MaxDenominatorDefault == 1000000

\* a coarse tolerance (one in CoarseTolerance) and a small cap
CoarseTolerance == 4
SmallDenominator == 4

\* the double 1 + 2^-30, less than the default tolerance above an integer
NearInteger == RatV(2^30 + 1, 2^30)

FractionInputs ==
  {RatV(p, q) : p \in (0 - MaxNumerator)..MaxNumerator, q \in 1..MaxDivisor}
    \cup {NearInteger, InfV(1), InfV(0 - 1), NaNV}

FractionInit ==
  /\ NoSession
  /\ NoFactorial
  /\ NoApp
  /\ NoCurrency
  /\ value \in FractionInputs
  /\ tolerance \in {RatV(1, ToleranceDefault), RatV(1, CoarseTolerance)}
  /\ maxDenominator \in {MaxDenominatorDefault, SmallDenominator}
  /\ sign = 0
  /\ h1 = None
  /\ h2 = None
  /\ k1 = None
  /\ k2 = None
  /\ b = None
  /\ pc = "enter"
  /\ returned = None

\* if (!isFinite(value)) return value; if (Number.isInteger(value)) return
\* value; the locals
FractionEnter ==
  /\ pc = "enter"
  /\ IF ~isFinite(value) \/ IsInt(value)
       THEN /\ returned' = value
            /\ pc' = "done"
            /\ UNCHANGED << sign, h1, h2, k1, k2, b >>
       ELSE /\ sign' = (IF SignOf(value) < 0 THEN 0 - 1 ELSE 1)
            /\ h1' = IntV(1)
            /\ h2' = IntV(0)
            /\ k1' = IntV(0)
            /\ k2' = IntV(1)
            /\ b' = MathAbs(value)
            /\ pc' = "do"
            /\ UNCHANGED returned
  /\ UNCHANGED << value, tolerance, maxDenominator >>
  /\ UNCHANGED << calculatorVars, factorialVars, appVars >>

\* the body of the do ... while
FractionDo ==
  /\ pc = "do"
  /\ \E a \in MathFloor(b) :
       /\ h1' = Add(Mul(a, h1), h2)
       /\ h2' = h1
       /\ k1' = Add(Mul(a, k1), k2)
       /\ k2' = k1
       /\ b' \in Reciprocal(b, a)
  /\ pc' = "while"
  /\ UNCHANGED << value, tolerance, maxDenominator, sign, returned >>
  /\ UNCHANGED << calculatorVars, factorialVars, appVars >>

\* its condition
FractionWhile ==
  /\ pc = "while"
  /\ \E again \in While(value, sign, h1, k1, tolerance, maxDenominator) :
       pc' = (IF again THEN "do" ELSE "after")
  /\ UNCHANGED << fractionVars, returned >>
  /\ UNCHANGED << calculatorVars, factorialVars, appVars >>

\* the statements after the loop
FractionReturn ==
  /\ pc = "after"
  /\ returned' \in Return(value, sign, h1, k1, tolerance, maxDenominator)
  /\ pc' = "done"
  /\ UNCHANGED fractionVars
  /\ UNCHANGED << calculatorVars, factorialVars, appVars >>

FractionNext ==
  \/ FractionEnter
  \/ FractionDo
  \/ FractionWhile
  \/ FractionReturn

\* a call runs on until it returns
FractionSpec == FractionInit /\ [][FractionNext]_vars /\ WF_vars(FractionNext)

(***************************************************************************)
(* A call of factorial, statement by statement.                            *)
(***************************************************************************)
\* the largest argument, and the arguments are halves down to its negative
MaxArgument == 24

FactorialInputs ==
  {RatV(m, 2) : m \in (0 - 2 * MaxArgument)..(2 * MaxArgument)}
    \cup {InfV(0 - 1), NaNV}

FactorialInit ==
  /\ NoSession
  /\ NoFraction
  /\ NoApp
  /\ NoCurrency
  /\ n \in FactorialInputs
  /\ product = None
  /\ factor = 0
  /\ pc = "enter"
  /\ returned = None

\* if (n < 0) return NaN; if (n === 0 || n === 1) return 1; let result = 1;
\* i = 2
FactorialEnter ==
  /\ pc = "enter"
  /\ IF Negative(n)
       THEN returned' = NotANumber /\ pc' = "done" /\ UNCHANGED << product, factor >>
     ELSE IF IsZero(n) \/ n = IntV(1)
       THEN /\ returned' = Product(TRUE, << 1 >>, 0)
            /\ pc' = "done"
            /\ UNCHANGED << product, factor >>
     ELSE /\ product' = Product(TRUE, << 1 >>, 0)
          /\ factor' = 2
          /\ pc' = "for"
          /\ UNCHANGED returned
  /\ UNCHANGED n
  /\ UNCHANGED << calculatorVars, fractionVars, appVars >>

\* for (...; i <= n; i++) result *= i
FactorialFor ==
  /\ pc = "for"
  /\ Reaches(n, factor)
  /\ product' = Multiply(product, factor)
  /\ factor' = factor + 1
  /\ UNCHANGED << n, pc, returned >>
  /\ UNCHANGED << calculatorVars, fractionVars, appVars >>

\* return result
FactorialReturn ==
  /\ pc = "for"
  /\ ~Reaches(n, factor)
  /\ returned' = product
  /\ pc' = "done"
  /\ UNCHANGED factorialVars
  /\ UNCHANGED << calculatorVars, fractionVars, appVars >>

FactorialNext ==
  \/ FactorialEnter
  \/ FactorialFor
  \/ FactorialReturn

FactorialSpec == FactorialInit /\ [][FactorialNext]_vars

(***************************************************************************)
(* The calculator session: the handlers of App run one after the other,    *)
(* each to its end.  The keys of a session are those of one of the         *)
(* keypads below; the toggles of the mode, which show and hide keys, leave *)
(* the session as it is.                                                   *)
(***************************************************************************)
\* the number of handlers that save a snapshot in a session
MaxPresses == 3

DivisionPad == << "5", "0", Obelus, "%", "=", "AC" >>
ParenPad == << "(", ")", "2", "+", "=", SquareLabel >>
FunctionPad == << "sin", "3", ".", "!", ReciprocalLabel, "DEL" >>
ConstantPad == << GlyphPi, "DEG", SignLabel, Times, PowerLabel, "=" >>
\* one key that saves a snapshot and changes nothing, pressed until the undo
\* stack is full
StackPad == << SignLabel >>

Pads == {DivisionPad, ParenPad, FunctionPad, ConstantPad, StackPad}

Presses(pad) == IF pad = StackPad THEN StackLimit + 2 ELSE MaxPresses

\* the texts the clipboard may hold: two that are pasted and one that is
\* refused; nothing is pasted in a session of StackPad
PasteTexts == {<< "1", ",", "5" >>, << "7", "/", "2" >>, << "x" >>}
Clipboard(pad) == IF pad = StackPad THEN {} ELSE PasteTexts

\* the session: the state of App that the handlers read and write, and the
\* last finalExpression handed to evaluateExpression
App ==
  [expression |-> expression, displayValue |-> displayValue,
   overwrite |-> overwrite, openParenCount |-> openParenCount,
   angleMode |-> angleMode, history |-> history, undoStack |-> undoStack,
   redoStack |-> redoStack, finalExpression |-> finalExpression]

\* the session after a handler
Becomes(app) ==
  /\ expression' = app.expression
  /\ displayValue' = app.displayValue
  /\ overwrite' = app.overwrite
  /\ openParenCount' = app.openParenCount
  /\ angleMode' = app.angleMode
  /\ history' = app.history
  /\ undoStack' = app.undoStack
  /\ redoStack' = app.redoStack
  /\ finalExpression' = app.finalExpression

SessionInit ==
  /\ keys \in Pads
  /\ expression = << >>
  /\ angleMode = "deg"
  /\ NoApp
  /\ typed = 0
  /\ rng = 0
  /\ computed = None
  /\ result = None
  /\ previous = None
  /\ formatted = None
  /\ display = None
  /\ NoFraction
  /\ NoFactorial
  /\ NoCurrency
  /\ pc = "App"
  /\ returned = None

\* what no handler of the session writes
SessionKeeps ==
  UNCHANGED << keys, rng, computed, result, previous, formatted, display,
               fractionVars, factorialVars, currencyVars, returned >>

\* a key of the keypad is pressed
Press(i) ==
  /\ typed < Presses(keys)
  /\ \E after \in {handleButtonClick(App, keys[i])} : Becomes(after)
  /\ typed' = typed + 1
  /\ pc' = "handleButtonClick"
  /\ SessionKeeps

\* the undo button, disabled while the undo stack is empty
Undo ==
  /\ undoStack # << >>
  /\ \E after \in {handleUndo(App)} : Becomes(after)
  /\ pc' = "handleUndo"
  /\ UNCHANGED typed
  /\ SessionKeeps

\* the redo button, disabled while the redo stack is empty
Redo ==
  /\ redoStack # << >>
  /\ \E after \in {handleRedo(App)} : Becomes(after)
  /\ pc' = "handleRedo"
  /\ UNCHANGED typed
  /\ SessionKeeps

\* an entry of the history panel is clicked
HistoryItemClick(i) ==
  /\ typed < Presses(keys)
  /\ \E after \in {handleHistoryItemClick(App, history[i])} : Becomes(after)
  /\ typed' = typed + 1
  /\ pc' = "handleHistoryItemClick"
  /\ SessionKeeps

\* the clipboard is pasted into the display
Paste(text) ==
  /\ typed < Presses(keys)
  /\ \E after \in {handlePaste(App, text)} : Becomes(after)
  /\ typed' = typed + 1
  /\ pc' = "handlePaste"
  /\ SessionKeeps

\* handleClearHistory()
ClearHistory ==
  /\ history # << >>
  /\ history' = << >>
  /\ pc' = "handleClearHistory"
  /\ UNCHANGED << expression, displayValue, overwrite, openParenCount,
                  angleMode, undoStack, redoStack, finalExpression, typed >>
  /\ SessionKeeps

SessionNext ==
  \/ \E i \in 1..Len(keys) : Press(i)
  \/ Undo
  \/ Redo
  \/ \E i \in 1..Len(history) : HistoryItemClick(i)
  \/ \E text \in Clipboard(keys) : Paste(text)
  \/ ClearHistory

SessionSpec == SessionInit /\ [][SessionNext]_vars

(***************************************************************************)
(* The currency converter of App: loadRates runs once, when App is         *)
(* mounted, while the currencies are chosen.                               *)
(***************************************************************************)
\* data.rates of a response of the rates service, asked for the rates from
\* USD: rates of currencies other than USD, all of the defaults, some of
\* them, one that is no default, or none
Responses ==
  {[c \in DefaultCurrencies \ {"USD"} |-> DEFAULT_EXCHANGE_RATES[c] + 1],
   [c \in {"EUR"} |-> 93],
   [c \in {"EUR", "NZD"} |-> IF c = "EUR" THEN 93 ELSE 164],
   [c \in {} |-> 0]}

CurrencyInit ==
  /\ NoSession
  /\ NoFraction
  /\ NoFactorial
  /\ NoApp
  /\ NoCurrency
  /\ pc = "loadRates"
  /\ returned = None

CurrencyKeeps ==
  UNCHANGED << calculatorVars, fractionVars, factorialVars, sessionVars,
               returned >>

\* fetchExchangeRates() returns null: the request failed, the response was
\* not ok or was no JSON
FetchFails ==
  /\ pc = "loadRates"
  /\ pc' = "failed"
  /\ UNCHANGED currencyVars
  /\ CurrencyKeeps

\* fetchExchangeRates() returns the rates of a response
FetchSucceeds(rates) ==
  /\ pc = "loadRates"
  /\ exchangeRates' = Spread(exchangeRates, NewRates(rates))
  /\ ratesLoaded' = TRUE
  /\ pc' = "loaded"
  /\ UNCHANGED << currencyFrom, currencyTo >>
  /\ CurrencyKeeps

\* onChange={e => setCurrencyFrom(e.target.value)}, of the options
\* Object.keys(exchangeRates)
SelectFrom(c) ==
  /\ currencyFrom' = c
  /\ UNCHANGED << currencyTo, exchangeRates, ratesLoaded, pc >>
  /\ CurrencyKeeps

SelectTo(c) ==
  /\ currencyTo' = c
  /\ UNCHANGED << currencyFrom, exchangeRates, ratesLoaded, pc >>
  /\ CurrencyKeeps

\* handleSwapCurrency()
handleSwapCurrency ==
  /\ currencyFrom' = currencyTo
  /\ currencyTo' = currencyFrom
  /\ UNCHANGED << exchangeRates, ratesLoaded, pc >>
  /\ CurrencyKeeps

CurrencyNext ==
  \/ FetchFails
  \/ \E rates \in Responses : FetchSucceeds(rates)
  \/ \E c \in DOMAIN exchangeRates : SelectFrom(c)
  \/ \E c \in DOMAIN exchangeRates : SelectTo(c)
  \/ handleSwapCurrency

CurrencySpec == CurrencyInit /\ [][CurrencyNext]_vars

\* the model gives every evaluation and every formatting a meaning
ModelCovers == result.k # "unk" /\ display.k # "unk"

(***************************************************************************)
(* The properties.                                                         *)
(***************************************************************************)
\* evaluateExpression(expression, angleMode) was called
Evaluated == result # None

\* a finite number
IsFiniteNumber(v) == v.k \in {"num", "sym"}

\* the text t occurs in s
Occurs(s, t) == \E i \in 1..Len(s) : TextAt(s, i, t)

\* s is a run of decimal digits that does not start with a zero
IsDecimal(s) ==
  /\ s # << >>
  /\ \A i \in 1..Len(s) : s[i] \in DigitChars
  /\ s[1] # "0"

\* the value of the decimal digits s
DecimalOf(s) == DecimalValue(s, 1, Len(s) + 1, 1, 1)

\* C1: evaluateExpression is total: for every input and either angle mode it
\* returns a finite number or one of the three messages.
C1_Total ==
  Evaluated => IsFiniteNumber(result) \/ result \in {Msg(m) : m \in Messages}

\* C2: an input that names the host's Math yields "Format Error", never a
\* number.
C2_HostNamesRejected ==
  (Evaluated /\ Occurs(expression, << "M", "a", "t", "h" >>))
    => result = Msg(FormatError)

\* C3: two evaluations of the same expression in the same angle mode return
\* the same result, whatever the state of the host.
C3_Deterministic == (Evaluated /\ previous # None) => result = previous

\* C4: an expression that computes to NaN evaluates to "Invalid Input".
C4_NaNIsInvalidInput ==
  (Evaluated /\ computed.k = "nan") => result = Msg(InvalidInput)

\* C5: formatResult(NaN) is "Invalid Input".
C5_FormatNaN == formatted.k = "nan" => display = Msg(InvalidInput)

\* a non-zero digit divided by zero, csc(0)
DividesByZero(s) ==
  \/ Len(s) = 3 /\ s[1] \in DigitChars \ {"0"} /\ s[2] \in {Obelus, "/"}
       /\ s[3] = "0"
  \/ s = << "c", "s", "c", "(", "0", ")" >>

\* C6: an expression whose result is +Infinity or -Infinity (a non-zero
\* number divided by zero, csc(0)) evaluates to "Can't divide by 0", and
\* formatResult returns that message unchanged.
C6_InfinityIsDivideByZero ==
  /\ (Evaluated /\ computed.k = "inf") => result = Msg(DivideByZero)
  /\ (Evaluated /\ DividesByZero(expression))
       => computed.k = "inf" /\ result = Msg(DivideByZero)
  /\ formatted = Msg(DivideByZero) => display = Msg(DivideByZero)

\* 5 / 0 was evaluated to the message and the message formatted
C6_Witness ==
  /\ expression = << "5", Obelus, "0" >>
  /\ computed = InfV(1)
  /\ result = Msg(DivideByZero)
  /\ formatted = result
  /\ display = Msg(DivideByZero)

\* C7: an input whose normalized form is empty (the empty string, whitespace
\* only) evaluates to the number 0.
C7_EmptyIsZero ==
  (Evaluated /\ StripSpace(expression) = << >>) => result = IntV(0)

\* the operators that take an operand on their left, and what cannot be one
BinaryOnly == {"*", "/", Times, Obelus}
NoOperand == {"", "+", "-", "/", Times, Obelus, "("}

\* s is built from supported tokens and a binary operator in it misses its
\* left operand, or its parentheses do not match
Malformed(s) ==
  /\ \A i \in 1..Len(s) :
       s[i] \in DigitChars \cup {"+", "-", "*", "/", Times, Obelus, "(", ")", "."}
  /\ \/ \E i \in 1..Len(s) : s[i] \in BinaryOnly /\ At(s, i - 1) \in NoOperand
     \/ Cardinality({i \in 1..Len(s) : s[i] = "("})
          # Cardinality({i \in 1..Len(s) : s[i] = ")"})

\* C8: a malformed expression of supported tokens evaluates to
\* "Format Error", never to a number.
C8_MalformedIsFormatError ==
  (Evaluated /\ Malformed(expression)) => result = Msg(FormatError)

\* the function of Math under the reciprocal function f
Under(f, x) ==
  CASE f = "csc" -> MathSin(x) [] f = "sec" -> MathCos(x) [] f = "cot" -> MathTan(x)

\* the expression is f(x) for the decimal digits x
IsCallOf(s, f, x) == s = << f[1], f[2], f[3], "(" >> \o x \o << ")" >>

\* C9: csc(x), sec(x) and cot(x) evaluate to 1 / sin(x), 1 / cos(x) and
\* 1 / tan(x) in the angle mode.
C9_Reciprocal ==
  \A f \in {<< "c", "s", "c" >>, << "s", "e", "c" >>, << "c", "o", "t" >>} :
    LET x == SubSeq(expression, 5, Len(expression) - 1)
    IN  (Evaluated /\ IsDecimal(x) /\ IsCallOf(expression, f, x))
          => result = Validate(Div(IntV(1),
                                   Under(Join(f), Angle(DecimalOf(x), angleMode))))

\* C10: digits e digits is one number in scientific notation: 1e5 evaluates
\* to 100000.
C10_Scientific ==
  \A i \in 2..(Len(expression) - 1) :
    LET m == SubSeq(expression, 1, i - 1)
        x == SubSeq(expression, i + 1, Len(expression))
    IN  (Evaluated /\ expression[i] = "e" /\ IsDecimal(m) /\ IsDecimal(x))
          => result = Validate(Scaled(DecimalOf(m), 1, DecimalOf(x).n))

\* the input with a multiply written at each adjacency of a digit and a letter
\* or "(", of ")" or "!" and a digit, a letter or "("
ExplicitMultiply(s) == ImplicitMultiplication(s)

\* C11: an input with such an adjacency evaluates to the result of the same
\* input with the multiply written at each adjacency (in the same angle mode
\* and some state of the host).
C11_ImplicitMultiplication ==
  (Evaluated /\ ExplicitMultiply(expression) # expression)
    => \E g \in 0..(Len(RandomValues) - 1) :
         result = evaluateExpression(ExplicitMultiply(expression), angleMode, g).out

\* C12: power binds tighter than a leading minus: -x^y, for decimal digits x
\* and y, evaluates to the number -(x^y).
C12_PowerBeforeMinus ==
  \A i \in 3..(Len(expression) - 1) :
    LET x == SubSeq(expression, 2, i - 1)
        y == SubSeq(expression, i + 1, Len(expression))
    IN  (Evaluated /\ expression[1] = "-" /\ expression[i] = "^"
           /\ IsDecimal(x) /\ IsDecimal(y))
          => result = Validate(Neg(Pow(DecimalOf(x), DecimalOf(y))))

\* the functions of the scope, by the name the expression writes
FunctionOf(f, x, mode) ==
  CASE f = << GlyphRoot >> -> MathSqrt(x)
    [] f = << "l", "o", "g" >> -> MathLog("log10", x)
    [] f = << "l", "n" >> -> MathLog("log", x)
    [] f = << "a", "b", "s" >> -> MathAbs(x)
    [] f = << "s", "i", "n" >> -> MathSin(Angle(x, mode))
    [] f = << "c", "o", "s" >> -> MathCos(Angle(x, mode))
    [] f = << "t", "a", "n" >> -> MathTan(Angle(x, mode))

FunctionNames ==
  {<< GlyphRoot >>, << "l", "o", "g" >>, << "l", "n" >>, << "a", "b", "s" >>,
   << "s", "i", "n" >>, << "c", "o", "s" >>, << "t", "a", "n" >>}

\* C13: a function name or the root glyph immediately followed by decimal
\* digits evaluates to the function applied to that number.
C13_AdjacentArgument ==
  \A f \in FunctionNames :
    LET x == From(expression, Len(f) + 1)
    IN  (Evaluated /\ expression = f \o x /\ IsDecimal(x))
          => result = Validate(FunctionOf(f, DecimalOf(x), angleMode))

\* the six functions of an angle, and what each computes of an angle y in
\* radians
TrigNames ==
  {<< "s", "i", "n" >>, << "c", "o", "s" >>, << "t", "a", "n" >>,
   << "c", "s", "c" >>, << "s", "e", "c" >>, << "c", "o", "t" >>}

TrigOf(f, y) ==
  CASE f = << "s", "i", "n" >> -> MathSin(y)
    [] f = << "c", "o", "s" >> -> MathCos(y)
    [] f = << "t", "a", "n" >> -> MathTan(y)
    [] f = << "c", "s", "c" >> -> Div(IntV(1), MathSin(y))
    [] f = << "s", "e", "c" >> -> Div(IntV(1), MathCos(y))
    [] f = << "c", "o", "t" >> -> Div(IntV(1), MathTan(y))

\* x degrees in radians: x times pi / 180
Radians(x, mode) == IF mode = "deg" THEN Mul(x, Div(PIV, IntV(180))) ELSE x

\* decimal digits, or the single digit 0
IsArgument(x) == IsDecimal(x) \/ x = << "0" >>

\* C15: the six functions of an angle are applied to x * pi / 180 in degrees
\* and to x in radians (sec as the scope defines it: no input reaches it);
\* an expression that names none of them evaluates alike in both modes.
C15_AngleMode ==
  /\ \A f \in TrigNames \ {<< "s", "e", "c" >>} :
       LET x == SubSeq(expression, 5, Len(expression) - 1)
       IN  (Evaluated /\ IsArgument(x)
              /\ expression = f \o << "(" >> \o x \o << ")" >>)
             => result = Validate(TrigOf(f, Radians(DecimalOf(x), angleMode)))
  /\ LET x == SubSeq(expression, 5, Len(expression) - 1)
     IN  (Evaluated /\ IsArgument(x)
            /\ expression = << "s", "e", "c", "(" >> \o x \o << ")" >>)
           => Apply("sec", DecimalOf(x), angleMode, None)
                = TrigOf(<< "s", "e", "c" >>, Radians(DecimalOf(x), angleMode))
  /\ (Evaluated /\ \A f \in TrigNames : ~Occurs(expression, f))
       => \A m \in AngleModes : \E g \in 0..(Len(RandomValues) - 1) :
            result = evaluateExpression(expression, m, g).out

\* sin(90) was evaluated in degrees, to another result than radians give
C15_Witness ==
  /\ expression = << "s", "i", "n", "(", "9", "0", ")" >>
  /\ angleMode = "deg"
  /\ result = MathSin(Mul(IntV(90), degToRad))
  /\ result # evaluateExpression(expression, "rad", rng).out

\* the largest operand of the literal factorials the claim is about
MaxFactorial == 20

\* s[j..i-1] is an integer literal of value at most MaxFactorial, and the
\* factorial mark follows it at i (no point follows the mark: the digits of
\* the value would be read with it)
IsLiteralFactorial(s, j, i) ==
  /\ j < i
  /\ At(s, i) = "!"
  /\ At(s, i + 1) # "."
  /\ \A k \in j..(i - 1) : s[k] \in DigitChars
  /\ At(s, j - 1) \notin DigitChars \cup LetterChars \cup {"."}
  /\ DecimalValue(s, j, i, i, i).k = "num"
  /\ DecimalValue(s, j, i, i, i).n <= MaxFactorial

\* s with the literal factorial s[j..i] replaced by its value
WithValue(s, j, i) ==
  SubSeq(s, 1, j - 1) \o << "(" >>
    \o NumberToChars(factorial(DecimalValue(s, j, i, i, i))) \o << ")" >>
    \o From(s, i + 1)

\* C14: an expression that contains k! for an integer literal k up to 20
\* evaluates as the expression with k! replaced by the value factorial(k)
\* (the expression is read without its whitespace).
C14_LiteralFactorial ==
  LET s == StripSpace(expression)
  IN  \A i \in 2..Len(s) : \A j \in 1..(i - 1) :
        (Evaluated /\ IsLiteralFactorial(s, j, i))
          => result = evaluateExpression(WithValue(s, j, i), angleMode, rng).out

\* 2+5! was evaluated to 122
C14_Witness ==
  /\ expression = << "2", "+", "5", "!" >>
  /\ IsLiteralFactorial(expression, 3, 4)
  /\ result = IntV(122)


(***************************************************************************)
(* decimalToFraction                                                       *)
(***************************************************************************)
\* a call with the default tolerance and maxDenominator has returned
ConvertedByDefault ==
  /\ pc = "done"
  /\ tolerance = RatV(1, ToleranceDefault)
  /\ maxDenominator = MaxDenominatorDefault

\* a finite value that is no integer
IsFraction(x) == isFinite(x) /\ ~IsInt(x)

\* every positive p / q of the inputs converts to the string "p/q" in lowest
\* terms
PositiveConverts ==
  (ConvertedByDefault /\ IsFraction(value) /\ SignOf(value) > 0
     /\ value # NearInteger)
    => returned = FractionText(IntV(Ideal(value).n), IntV(Ideal(value).d))

\* C16: a negative value that is no integer, and whose absolute value
\* converts to the string "p/q" (as every p / q of the inputs does,
\* PositiveConverts), is returned as the string "-p/q", the sign on the
\* numerator, and not as the decimal
C16_NegativeFraction ==
  (ConvertedByDefault /\ IsFraction(value) /\ SignOf(value) < 0)
    => returned = FractionText(IntV(Ideal(value).n), IntV(Ideal(value).d))

\* whether n / d differs from x by at most t, for integers n, d > 0
Within(nn, dd, x, t) ==
  AbsI(nn * Ideal(x).d - Ideal(x).n * dd)
    <= (Ideal(t).n * dd * Ideal(x).d) \div Ideal(t).d

\* C17: whenever decimalToFraction returns a string "n/d" for a finite value
\* that is no integer, n divided by d differs from the value by at most the
\* tolerance
C17_RoundTrip ==
  (pc = "done" /\ IsFraction(value) /\ returned.k = "text")
    => /\ IsInt(returned.args[1])
       /\ IsInt(returned.args[2])
       /\ returned.args[2].n > 0
       /\ Within(returned.args[1].n, returned.args[2].n, value, tolerance)

\* a string is returned for a value it does not equal but is within the
\* tolerance of
C17_Witness ==
  /\ pc = "done"
  /\ IsFraction(value)
  /\ returned.k = "text"
  /\ returned.args[1].n * Ideal(value).d # Ideal(value).n * returned.args[2].n
  /\ Within(returned.args[1].n, returned.args[2].n, value, tolerance)

\* C18: the loop of decimalToFraction ends for every finite value that is no
\* integer, positive or negative, b - a becoming 0 on the way included: the
\* call returns
C18_Terminates == <>(pc = "done")

\* a call for a negative value has returned after b - a was 0 and b Infinity
C18_Witness ==
  /\ pc = "done"
  /\ IsFraction(value)
  /\ SignOf(value) < 0
  /\ b.k \in {"inf", "nan"}

\* C30: decimalToFraction never returns a string whose denominator is 1:
\* for every finite value that is no integer it returns the value itself or
\* a string "n/d" with d >= 2
C30_NoUnitDenominator ==
  (pc = "done" /\ IsFraction(value) /\ returned.k = "text")
    => returned.args[2].n >= 2

(***************************************************************************)
(* factorial                                                               *)
(***************************************************************************)
RECURSIVE ExactProduct(_)
\* the digits of 1 * 2 * ... * m
ExactProduct(m) == IF m <= 1 THEN << 1 >> ELSE MulDigits(ExactProduct(m - 1), m, 0)

\* the digits of the integer a product stands for
DigitsOf(r) ==
  MulDigits(MulDigits(r.odd, 2 ^ (r.twos \div 2), 0),
            2 ^ (r.twos - r.twos \div 2), 0)

RECURSIVE ToDigits(_)
\* the digits of the integer x >= 0
ToDigits(x) ==
  IF x < 10000 THEN << x >> ELSE << x % 10000 >> \o ToDigits(x \div 10000)

\* C19: for every integer n with 0 <= n <= 20, factorial(n) is the exact
\* product 1 * 2 * ... * n, and 1 for n = 0 and n = 1; the value the
\* evaluation of an expression takes for n! is the same where it is kept as
\* an integer
C19_ExactFactorial ==
  (pc = "done" /\ n \in {IntV(m) : m \in 0..20})
    => /\ returned.k = "num"
       /\ returned.exact
       /\ DigitsOf(returned) = ExactProduct(n.n)
       /\ factorial(n).k = "num" => ToDigits(factorial(n).n) = ExactProduct(n.n)

\* 20! = 2432902008176640000 is returned
C19_Witness ==
  /\ pc = "done"
  /\ n = IntV(20)
  /\ returned.exact
  /\ DigitsOf(returned) = << 0, 7664, 81, 2902, 243 >>

\* C20: for every negative n, factorial(n) returns NaN and never a number,
\* in the call and in the evaluation of an expression alike
C20_NegativeIsNaN ==
  (pc = "done" /\ n.k \in {"num", "inf"} /\ SignOf(n) < 0)
    => returned = NotANumber /\ factorial(n) = NaNV

\* NaN is returned for -1/2 and for -Infinity
C20_Witness ==
  /\ pc = "done"
  /\ n \in {RatV(0 - 1, 2), InfV(0 - 1)}
  /\ returned = NotANumber

(***************************************************************************)
(* The calculator session                                                  *)
(***************************************************************************)
\* the labels of the keys of the keypads
Labels ==
  DigitChars
    \cup {"AC", SignLabel, "%", Obelus, Times, "-", "+", ".", "DEL", "="}
    \cup FunctionLabels
    \cup {"DEG", "RAD", GlyphPi, "e", GlyphPhi, ReciprocalLabel, SquareLabel,
          PowerLabel, "(", ")", "!"}

\* what a user can do next in the session, AC apart: the session after it
AfterAction ==
  {handleButtonClick(App, label) : label \in Labels \ {"AC"}}
    \cup {handleUndo(App), handleRedo(App)}
    \cup {handlePaste(App, text) : text \in PasteTexts}
    \cup {handleHistoryItemClick(App, history[i]) : i \in 1..Len(history)}

\* C21: once displayValue is one of the error messages, no action of the
\* user other than AC (a key, undo, redo, paste, a click on a history entry)
\* changes expression or displayValue
C21_ErrorLock ==
  isError(displayValue)
    => \A after \in AfterAction :
         after.expression = expression /\ after.displayValue = displayValue

\* the number of "(" of s less the number of its ")"
Unclosed(s) ==
  Cardinality({i \in 1..Len(s) : s[i] = "("})
    - Cardinality({i \in 1..Len(s) : s[i] = ")"})

\* every ")" of s closes a "(" before it and no "(" is left open
Balanced(s) ==
  /\ Unclosed(s) = 0
  /\ \A k \in 1..Len(s) : Unclosed(SubSeq(s, 1, k)) >= 0

\* C22: after any sequence of actions, openParenCount is the number of
\* unclosed "(" of the expression, and the string that '=' hands to
\* evaluateExpression has balanced parentheses
C22_BalancedAtEquals ==
  /\ openParenCount = Unclosed(expression)
  /\ finalExpression # << >> => Balanced(finalExpression[1])

\* a press of the key is not ignored: it saves a snapshot
Saves(app, label) ==
  /\ ~(isError(app.displayValue) /\ label # "AC")
  /\ label \notin {"DEG", "RAD"}

\* C23: after a press of any key that saves a snapshot, an undo at once
\* restores expression, displayValue, overwrite and openParenCount to their
\* values before the press
C23_UndoRestores ==
  \A label \in Labels :
    Saves(App, label)
      => CalculatorState(handleUndo(handleButtonClick(App, label)))
           = CalculatorState(App)

\* an undo has taken back a press that had changed the session
C23_Witness ==
  /\ pc = "handleUndo"
  /\ Len(redoStack) = 1
  /\ redoStack[1] # CalculatorState(App)

\* C25: the undo stack never holds more than 50 snapshots
C25_StackLimit == Len(undoStack) <= StackLimit

\* the stack is full after more presses than it holds
C25_Witness == Len(undoStack) = StackLimit /\ typed > StackLimit

\* C26: no entry of the history has an error message as its result
C26_HistoryValid ==
  \A i \in 1..Len(history) : ~isError(SplitResult(history[i]))

\* C27: an undo and a redo at once leave the session as it was: expression,
\* displayValue, overwrite, openParenCount and both stacks
C27_UndoRedo == undoStack # << >> => handleRedo(handleUndo(App)) = App

\* a redo has run after an undo
C27_Witness ==
  /\ pc = "handleRedo"
  /\ undoStack # << >>
  /\ undoStack[1] # CalculatorState(App)

\* App as it is mounted
Mounted ==
  [expression |-> << >>, displayValue |-> << "0" >>, overwrite |-> TRUE,
   openParenCount |-> 0, angleMode |-> "deg", history |-> << >>,
   undoStack |-> << >>, redoStack |-> << >>, finalExpression |-> << >>]

RECURSIVE Pressed(_)
\* the session after the keys are pressed one after the other
Pressed(values) ==
  IF values = << >> THEN Mounted
  ELSE CHOOSE after \in
         {handleButtonClick(app, values[Len(values)]) :
            app \in {Pressed(SubSeq(values, 1, Len(values) - 1))}} : TRUE

\* the keys ( 1 + 2 ) × 3 =
GroupKeys == << "(", "1", "+", "2", ")", Times, "3", "=" >>

\* the keys of the binary operators
OperatorLabels == {"+", "-", Times, Obelus, PowerLabel}

\* an expression followed by the operator of a key
WithOperator(s, label) ==
  s \o << " ", IF label = PowerLabel THEN "^" ELSE label, " " >>

\* what '=' hands to evaluateExpression when it writes nothing but the
\* closing parentheses
Closed(app) == app.expression \o Repeat(")", app.openParenCount)

\* the operand of the display is not written again after this session
WrittenOnce(app) ==
  /\ handleButtonClick(app, "=").finalExpression = << Closed(app) >>
  /\ \A label \in OperatorLabels :
       handleButtonClick(app, label).expression
         = WithOperator(app.expression, label)

\* C28: after ')' has closed a group and after x^2 the display value, which
\* is in the expression already, is not written again by the next operator
\* or by '=': the keys ( 1 + 2 ) × 3 = hand "(1+2)×3" to the evaluator
C28_OperandOnce ==
  /\ (~isError(displayValue) /\ openParenCount > 0)
       => WrittenOnce(handleButtonClick(App, ")"))
  /\ ~isError(displayValue)
       => WrittenOnce(handleButtonClick(App, SquareLabel))
  /\ StripSpace(Pressed(GroupKeys).finalExpression[1])
       = << "(", "1", "+", "2", ")", Times, "3" >>

\* C29: a binary operator pressed at once after another replaces it: the
\* expression ends with the second operator alone and has the operand once
C29_OperatorReplaced ==
  (~isError(displayValue) /\ ~overwrite)
    => \A first \in OperatorLabels, second \in OperatorLabels :
         handleButtonClick(handleButtonClick(App, first), second).expression
           = WithOperator(expression \o displayValue, second)

(***************************************************************************)
(* The currency rates                                                      *)
(***************************************************************************)
\* a conversion between the two currencies is available with the table
Available(from, to) ==
  /\ getExchangeRate(from, to, exchangeRates) # IntV(0)
  /\ convertCurrency(IntV(1), from, to, exchangeRates) # IntV(0)

====
